---- MODULE Spec2Model ----
(***************************************************************************)
(* Model of the YASK named-coordinate core (src/src/common/tuple.hpp):     *)
(* the shared name pool of Scalar, and Tuple with its deque of scalars,    *)
(* its name->value-slot map, layout(), visitAllPoints() and comparisons.   *)
(***************************************************************************)
EXTENDS Integers, Sequences, FiniteSets, TLC

VARIABLES
    allNames,   \* Scalar<T>::_allNames: the pool; a node's address is its index
    tup,        \* the Tuple objects of the run, by object name
    arg,        \* the arguments of the call under way
    out,        \* what the last call returned
    pc,         \* position of the (single-threaded) caller
    thr,        \* per thread: position inside _getNamePtr, argument, result
    stack,      \* visitAllPoints: the recursion's frames
    visited,    \* visitAllPoints: the points handed to the visitor, in order
    hist        \* history: per text, the pointer _getNamePtr returned for it first

vars == <<allNames, tup, arg, out, pc, thr, stack, visited, hist>>

(***************************************************************************)
(* Bounds of the model.                                                    *)
(***************************************************************************)
MaxExt == 2          \* extents are drawn from -1..MaxExt
MaxOff == 2          \* offsets are drawn from -1..MaxOff

Names == {"x", "y", "z"}

\* The null pointer returned by lookup().
NULL == 0

\* size_t arithmetic is modular; the width is scaled down from 2^64 so that
\* products stay inside the checker's integers.
SizeMod == 32768

SizeT(v) == v % SizeMod

(***************************************************************************)
(* Scalar<T>::_allNames and _getNamePtr.                                   *)
(***************************************************************************)
\* std::set::find: address of the node holding text, NULL if none.
FindName(P, text) ==
    IF \E i \in 1..Len(P) : P[i] = text
    THEN CHOOSE i \in 1..Len(P) : P[i] = text /\ \A j \in 1..(i-1) : P[j] # text
    ELSE NULL

\* An insert that moves the nodes already in the pool.
InsertNameMoving(P, text) ==
    IF FindName(P, text) # NULL THEN P ELSE <<text>> \o P

\* _allNames.insert(name): the pool afterwards.

InsertName(P, text) ==
    IF FindName(P, text) # NULL THEN P ELSE Append(P, text)

\* _getNamePtr(name): the address returned (i.first of the insert).
GetNamePtr(P, text) == FindName(InsertName(P, text), text)

\* Scalar::getName(): the text behind a name pointer.
getName(P, ptr) == P[ptr]

(***************************************************************************)
(* Tuple: _q (deque of Scalars, each living in a value slot), _map and     *)
(* _firstInner.  A deque never moves an element, so a slot is stable.      *)
(***************************************************************************)
EmptyMap == [n \in {} |-> NULL]

\* Tuple(): the default constructor.
NewTuple == [q |-> <<>>, map |-> EmptyMap, firstInner |-> TRUE]

size(t) == Len(t.q)

QSlots(q) == {q[i].slot : i \in 1..Len(q)}

\* Storage for one more deque element: an address no live element has.
FreshSlot(q) == CHOOSE s \in 1..(Len(q) + 1) :
                    s \notin QSlots(q) /\ \A r \in 1..(s-1) : r \in QSlots(q)

\* An _updateMap that leaves the map as it is.
UpdateMapNoop(t) == t

\* _updateMap(): for (auto& i : _q) _map[i._name] = i.getValPtr().

UpdateMap(t) ==
    LET q == t.q
        qn == {q[i].name : i \in 1..Len(q)}
        last(n) == CHOOSE i \in 1..Len(q) :
                      q[i].name = n /\ \A j \in (i+1)..Len(q) : q[j].name # n
    IN [t EXCEPT !.map = [n \in (DOMAIN t.map) \cup qn |->
                             IF n \in qn THEN q[last(n)].slot ELSE t.map[n]]]

\* _resetMap().
ResetMap(t) == UpdateMap([t EXCEPT !.map = EmptyMap])

\* lookup(const std::string& dim): the value slot, or NULL.
Lookup(P, t, dim) ==
    LET sp == GetNamePtr(P, dim)
    IN IF sp \in DOMAIN t.map THEN t.map[sp] ELSE NULL

\* lookup(int i).
LookupIdx(t, i) == IF i >= 0 /\ i < size(t) THEN t.q[i + 1].slot ELSE NULL

\* *p for a value pointer p of this tuple.
Deref(t, p) == LET i == CHOOSE i \in 1..Len(t.q) : t.q[i].slot = p IN t.q[i].val

\* *p = val.
Store(t, p, val) ==
    [t EXCEPT !.q = [i \in 1..Len(t.q) |->
                        IF t.q[i].slot = p THEN [t.q[i] EXCEPT !.val = val]
                        ELSE t.q[i]]]

\* getVal(dim) (the name must exist).
getVal(P, t, dim) == Deref(t, Lookup(P, t, dim))

\* addDimBack(dim, val).
AddDimBack(P, t, dim, val) ==
    LET p == Lookup(P, t, dim)
    IN IF p # NULL THEN Store(t, p, val)
       ELSE UpdateMap([t EXCEPT !.q = Append(@,
               [name |-> GetNamePtr(P, dim), val |-> val, slot |-> FreshSlot(t.q)])])

\* An addDimFront that puts a new dimension at the back.
AddDimFrontAtBack(P, t, dim, val) == AddDimBack(P, t, dim, val)

\* addDimFront(dim, val).

AddDimFront(P, t, dim, val) ==
    LET p == Lookup(P, t, dim)
    IN IF p # NULL THEN Store(t, p, val)
       ELSE UpdateMap([t EXCEPT !.q = <<[name |-> GetNamePtr(P, dim), val |-> val,
                                         slot |-> FreshSlot(t.q)]>> \o @])

\* A copy that keeps the map of rhs, which points into the storage of rhs.
CopyTupleKeepsMap(rhs) ==
    [q |-> [i \in 1..Len(rhs.q) |-> [rhs.q[i] EXCEPT !.slot = i]],
     map |-> rhs.map,
     firstInner |-> rhs.firstInner]

\* Tuple(const Tuple& rhs) and operator=: _q copied into the copy's own
\* storage, _firstInner copied, _resetMap().

CopyTuple(rhs) ==
    ResetMap([q |-> [i \in 1..Len(rhs.q) |-> [rhs.q[i] EXCEPT !.slot = i]],
              map |-> EmptyMap,
              firstInner |-> rhs.firstInner])

\* A tuple built the way callers build one: addDimBack per dimension, then
\* setFirstInner.
RECURSIVE AddAll(_, _, _)
AddAll(P, t, pairs) ==
    IF pairs = <<>> THEN t
    ELSE AddAll(InsertName(P, pairs[1][1]),
                AddDimBack(P, t, pairs[1][1], pairs[1][2]), Tail(pairs))

MkTuple(P, pairs, fi) == [AddAll(P, NewTuple, pairs) EXCEPT !.firstInner = fi]

\* setFirstInner(fi).
setFirstInner(t, fi) == [t EXCEPT !.firstInner = fi]

(***************************************************************************)
(* Comparisons.                                                            *)
(***************************************************************************)
\* An areDimsSame that wants the names in the same order.
areDimsSameInOrder(P, this, rhs) ==
    /\ size(this) = size(rhs)
    /\ \A i \in 1..Len(this.q) : this.q[i].name = rhs.q[i].name

\* areDimsSame(rhs): same size and every name of this is found in rhs.

areDimsSame(P, this, rhs) ==
    IF size(this) # size(rhs) THEN FALSE
    ELSE \A i \in 1..Len(this.q) :
            Lookup(P, rhs, getName(P, this.q[i].name)) # NULL

\* operator==.
TupleEq(P, this, rhs) ==
    IF ~areDimsSame(P, this, rhs) THEN FALSE
    ELSE \A i \in 1..Len(this.q) :
            this.q[i].val = getVal(P, rhs, getName(P, this.q[i].name))

\* The characters of a name, as std::string holds them.
Chars(text) ==
    CASE text = "t" -> <<116>>
      [] text = "x" -> <<120>>
      [] text = "y" -> <<121>>
      [] text = "z" -> <<122>>
      [] OTHER -> <<>>

\* makeDimStr() with its default separator ", ".
RECURSIVE DimStrFrom(_, _, _)
DimStrFrom(P, this, n) ==
    IF n > Len(this.q) THEN <<>>
    ELSE (IF n > 1 THEN <<44, 32>> ELSE <<>>)
         \o Chars(getName(P, this.q[n].name)) \o DimStrFrom(P, this, n + 1)

makeDimStr(P, this) == DimStrFrom(P, this, 1)

\* std::string operator<: lexicographic on the characters.
RECURSIVE StrLess(_, _)
StrLess(s, r) ==
    IF r = <<>> THEN FALSE
    ELSE IF s = <<>> THEN TRUE
    ELSE IF s[1] < r[1] THEN TRUE
    ELSE IF s[1] > r[1] THEN FALSE
    ELSE StrLess(Tail(s), Tail(r))

\* The value loop of operator<, from element n of this's deque on.
RECURSIVE LessVals(_, _, _, _)
LessVals(P, this, rhs, n) ==
    IF n > Len(this.q) THEN FALSE
    ELSE LET val == this.q[n].val
             rval == getVal(P, rhs, getName(P, this.q[n].name))
         IN IF val < rval THEN TRUE
            ELSE IF val > rval THEN FALSE
            ELSE LessVals(P, this, rhs, n + 1)

\* operator<.
TupleLess(P, this, rhs) ==
    IF size(this) < size(rhs) THEN TRUE
    ELSE IF size(this) > size(rhs) THEN FALSE
    ELSE IF areDimsSame(P, this, rhs) THEN LessVals(P, this, rhs, 1)
    ELSE StrLess(makeDimStr(P, this), makeDimStr(P, rhs))

\* operator!=, operator<=, operator>, operator>=.
TupleNe(P, this, rhs) == ~TupleEq(P, this, rhs)
TupleLe(P, this, rhs) == TupleEq(P, this, rhs) \/ TupleLess(P, this, rhs)
TupleGt(P, this, rhs) == ~TupleLe(P, this, rhs)
TupleGe(P, this, rhs) == ~TupleLess(P, this, rhs)

(***************************************************************************)
(* Reductions.                                                             *)
(***************************************************************************)
\* reduce(reducer) with the multiplying reducer: result = first value, then
\* result = result * value.
RECURSIVE ReduceMul(_, _, _)
ReduceMul(this, n, result) ==
    IF n > Len(this.q) THEN result
    ELSE ReduceMul(this, n + 1,
                   IF n = 1 THEN this.q[n].val ELSE result * this.q[n].val)

\* product().
product(this) ==
    IF Cardinality(DOMAIN this.map) # 0 THEN ReduceMul(this, 1, 0) ELSE 1

(***************************************************************************)
(* layout().  A failed assert is a ContractViolation: no index returned.   *)
(***************************************************************************)
ContractViolation == [ok |-> FALSE, idx |-> 0]

Returned(v) == [ok |-> TRUE, idx |-> v]

\* LayoutStep with the offset added without its stride.
LayoutStepNoStride(P, this, offsets, di, idx, prevSize) ==
    LET i == this.q[di + 1]
        dsize == SizeT(i.val)
        op == Lookup(P, offsets, getName(P, i.name))
        offset == IF op # NULL THEN SizeT(Deref(offsets, op)) ELSE 0
    IN [ok |-> offset < dsize, idx |-> SizeT(idx + offset),
        prevSize |-> SizeT(prevSize * dsize)]

\* LayoutStep with a missing offset taken as 1.
LayoutStepDefaultOne(P, this, offsets, di, idx, prevSize) ==
    LET i == this.q[di + 1]
        dsize == SizeT(i.val)
        op == Lookup(P, offsets, getName(P, i.name))
        offset == IF op # NULL THEN SizeT(Deref(offsets, op)) ELSE 1
        idx2 == SizeT(idx + offset * prevSize)
        prevSize2 == SizeT(prevSize * dsize)
    IN [ok |-> /\ offset < dsize
               /\ idx2 < SizeT(product(this))
               /\ prevSize2 <= SizeT(product(this)),
        idx |-> idx2, prevSize |-> prevSize2]

\* One pass of layout's loop body, at deque position di (0-based).
LayoutStep(P, this, offsets, di, idx, prevSize) ==
    LET i == this.q[di + 1]
        dim == getName(P, i.name)
        dsize == SizeT(i.val)
        op == Lookup(P, offsets, dim)
        offset == IF op # NULL THEN SizeT(Deref(offsets, op)) ELSE 0
        idx2 == SizeT(idx + offset * prevSize)
        prevSize2 == SizeT(prevSize * dsize)
    IN [ok |-> /\ dsize >= 0
               /\ offset >= 0
               /\ offset < dsize
               /\ idx2 >= 0
               /\ idx2 < SizeT(product(this))
               /\ prevSize2 <= SizeT(product(this)),
        idx |-> idx2, prevSize |-> prevSize2]

\* for (int di = startDim; di != beyondLastDim; di += stepDim).
RECURSIVE LayoutLoop(_, _, _, _, _, _, _, _)
LayoutLoop(P, this, offsets, di, beyondLastDim, stepDim, idx, prevSize) ==
    IF di = beyondLastDim THEN Returned(idx)
    ELSE LET r == LayoutStep(P, this, offsets, di, idx, prevSize)
         IN IF ~r.ok THEN ContractViolation
            ELSE LayoutLoop(P, this, offsets, di + stepDim, beyondLastDim, stepDim,
                            r.idx, r.prevSize)

\* layout that always walks from the first dimension.
layoutFirstInnerOnly(P, this, offsets, strictRhs) ==
    IF strictRhs /\ ~areDimsSame(P, this, offsets) THEN ContractViolation
    ELSE LayoutLoop(P, this, offsets, 0, size(this), 1, 0, 1)

\* layout(offsets, strictRhs).
layout(P, this, offsets, strictRhs) ==
    IF strictRhs /\ ~areDimsSame(P, this, offsets) THEN ContractViolation
    ELSE LET startDim == IF this.firstInner THEN 0 ELSE size(this) - 1
             beyondLastDim == IF this.firstInner THEN size(this) ELSE -1
             stepDim == IF this.firstInner THEN 1 ELSE -1
         IN LayoutLoop(P, this, offsets, startDim, beyondLastDim, stepDim, 0, 1)

(***************************************************************************)
(* Inputs: the addDimBack argument lists a caller builds a tuple from.     *)
(***************************************************************************)
\* The dimension orders drawn: every order of at most two names, and two
\* orders of all three.
DimOrders ==
    {<<>>, <<"x">>, <<"y">>, <<"z">>,
     <<"x", "y">>, <<"y", "x">>, <<"x", "z">>, <<"z", "x">>,
     <<"y", "z">>, <<"z", "y">>,
     <<"x", "y", "z">>, <<"z", "x", "y">>}

DimLists(vals) ==
    UNION {{[i \in 1..Len(o) |-> <<o[i], v[i]>>] : v \in [1..Len(o) -> vals]} :
              o \in DimOrders}

\* The pool after the addDimBack calls of pairs.
RECURSIVE PoolAfter(_, _)
PoolAfter(P, pairs) ==
    IF pairs = <<>> THEN P
    ELSE PoolAfter(InsertName(P, pairs[1][1]), Tail(pairs))

ExtVals == (-1)..MaxExt
OffVals == (-1)..MaxOff

\* The documented examples: extents, orientation flag, offsets.
Ext43 == <<<<"x", 4>>, <<"y", 3>>>>
Ext1888 == <<<<"t", 1>>, <<"x", 8>>, <<"y", 8>>, <<"z", 8>>>>
ExampleCalls ==
    {<<Ext43, TRUE, <<<<"x", 0>>, <<"y", 0>>>>>>,
     <<Ext43, TRUE, <<<<"x", 3>>, <<"y", 0>>>>>>,
     <<Ext43, TRUE, <<<<"x", 0>>, <<"y", 1>>>>>>,
     <<Ext43, TRUE, <<<<"x", 3>>, <<"y", 2>>>>>>,
     <<Ext1888, FALSE, <<<<"t", 0>>, <<"x", 1>>, <<"y", 0>>, <<"z", 0>>>>>>,
     <<Ext1888, FALSE, <<<<"t", 0>>, <<"x", 0>>, <<"y", 0>>, <<"z", 1>>>>>>}

(***************************************************************************)
(* SpecLayout: a caller builds an extents tuple and an offsets tuple and   *)
(* calls layout().                                                         *)
(***************************************************************************)
NoThreads == [t \in {} |-> 0]

NoHistory == [n \in {} |-> 0]

NoResult == [ok |-> FALSE, idx |-> 0]

InitLayoutWith(ep, fi, opr) ==
    /\ allNames = PoolAfter(PoolAfter(<<>>, ep), opr)
    /\ tup = [ext |-> MkTuple(<<>>, ep, fi),
              off |-> MkTuple(PoolAfter(<<>>, ep), opr, TRUE)]
    /\ arg = [strict |-> TRUE]
    /\ out = NoResult
    /\ pc = "start"
    /\ thr = NoThreads
    /\ stack = <<>>
    /\ visited = <<>>
    /\ hist = NoHistory

InitLayout ==
    \/ \E ep \in DimLists(ExtVals), opr \in DimLists(OffVals), fi \in BOOLEAN :
          InitLayoutWith(ep, fi, opr)
    \/ \E c \in ExampleCalls : InitLayoutWith(c[1], c[2], c[3])

LayoutCall ==
    /\ pc = "start"
    /\ \E strictRhs \in BOOLEAN :
        /\ arg' = [strict |-> strictRhs]
        /\ out' = layout(allNames, tup.ext, tup.off, strictRhs)
    /\ pc' = "done"
    /\ UNCHANGED <<allNames, tup, thr, stack, visited, hist>>

NextLayout == LayoutCall

SpecLayout == InitLayout /\ [][NextLayout]_vars

(***************************************************************************)
(* The plain reading of a tuple, used to state the properties: its names   *)
(* as texts and its values as the deque holds them.                        *)
(***************************************************************************)
DimNames(t) == {getName(allNames, t.q[i].name) : i \in 1..Len(t.q)}

ValOf(t, d) ==
    LET i == CHOOSE i \in 1..Len(t.q) : getName(allNames, t.q[i].name) = d
    IN t.q[i].val

NameAt(t, k) == getName(allNames, t.q[k].name)

\* The offset layout is to use for dimension d of the extents: the one the
\* offsets tuple gives, 0 if it gives none.
UsedOff(d) == IF d \in DimNames(tup.off) THEN ValOf(tup.off, d) ELSE 0

RECURSIVE ProdExt(_, _)
ProdExt(lo, hi) == IF lo > hi THEN 1 ELSE tup.ext.q[lo].val * ProdExt(lo + 1, hi)

\* The stride of the k-th dimension of the extents (k from 1).
Stride(k) ==
    IF tup.ext.firstInner THEN ProdExt(1, k - 1) ELSE ProdExt(k + 1, Len(tup.ext.q))

RECURSIVE SumOffStride(_)
SumOffStride(k) ==
    IF k > Len(tup.ext.q) THEN 0
    ELSE UsedOff(NameAt(tup.ext, k)) * Stride(k) + SumOffStride(k + 1)

AllExtentsPositive == \A k \in 1..Len(tup.ext.q) : tup.ext.q[k].val >= 1

UsedOffsetsInRange ==
    \A k \in 1..Len(tup.ext.q) :
        /\ UsedOff(NameAt(tup.ext, k)) >= 0
        /\ UsedOff(NameAt(tup.ext, k)) < tup.ext.q[k].val

SameNameSets == DimNames(tup.ext) = DimNames(tup.off)

\* The largest extent of the extents tuple (0 when it has no dimension).
MaxExtent ==
    IF Len(tup.ext.q) = 0 THEN 0
    ELSE CHOOSE m \in {tup.ext.q[k].val : k \in 1..Len(tup.ext.q)} :
            \A k \in 1..Len(tup.ext.q) : tup.ext.q[k].val <= m

\* The points of the box of the extents: one offset in 0..extent-1 per dimension.
BoxPoints ==
    {pt \in [DimNames(tup.ext) -> 0..(MaxExtent - 1)] :
        \A d \in DimNames(tup.ext) : pt[d] < ValOf(tup.ext, d)}

\* The offsets tuple of a point, with the dimensions in the extents' order.
PointTuple(pt) ==
    MkTuple(allNames, [k \in 1..Len(tup.ext.q) |->
                          <<NameAt(tup.ext, k), pt[NameAt(tup.ext, k)]>>], TRUE)

OffPoint == [d \in DimNames(tup.ext) |-> UsedOff(d)]

\* C4: for extents all >= 1 and either orientation, layout restricted to the
\* offsets with 0 <= offset < extent in every dimension is a bijection onto
\* 0..product()-1: every such offsets tuple gets an index, the indices are
\* exactly 0..product()-1, and no two points share one; the index returned
\* for the call's own offsets is the one of its point.
C4_LayoutBijection ==
    (pc = "done" /\ AllExtentsPositive /\ SameNameSets /\ UsedOffsetsInRange) =>
        LET res(pt) == layout(allNames, tup.ext, PointTuple(pt), arg.strict)
            img == {res(pt).idx : pt \in BoxPoints}
        IN /\ \A pt \in BoxPoints : res(pt).ok
           /\ img = 0..(product(tup.ext) - 1)
           /\ Cardinality(img) = Cardinality(BoxPoints)
           /\ out = res(OffPoint)
           /\ (tup.ext = MkTuple(<<>>, Ext43, TRUE) =>
                  out.idx = UsedOff("x") + 4 * UsedOff("y"))

C4_Witness ==
    /\ pc = "done" /\ AllExtentsPositive /\ SameNameSets /\ UsedOffsetsInRange
    /\ Len(tup.ext.q) = 3
    /\ ~tup.ext.firstInner
    /\ product(tup.ext) = 8
    /\ out.ok /\ out.idx = 7

\* C5: for a call within the contract (every offset used in 0..extent-1, and
\* the same dimension names when strict) layout returns the sum over the
\* dimensions of offset times stride, the stride being the product of the
\* extents before the dimension when firstInner and after it otherwise; the
\* extents {t:1,x:8,y:8,z:8} with firstInner=false map x:1 to 64 and z:1 to 1.
C5_LayoutStrideSum ==
    /\ (pc = "done" /\ UsedOffsetsInRange /\ (arg.strict => SameNameSets)) =>
          (out.ok /\ out.idx = SumOffStride(1))
    /\ (pc = "done" /\ tup.ext = MkTuple(<<>>, Ext1888, FALSE)) =>
          /\ (UsedOff("x") = 1 => out = Returned(64))
          /\ (UsedOff("z") = 1 => out = Returned(1))

C5_Witness ==
    /\ pc = "done"
    /\ tup.ext = MkTuple(<<>>, Ext1888, FALSE)
    /\ UsedOff("x") = 1
    /\ out = Returned(64)

\* C7 (as claimed): layout ends in a ContractViolation whenever an offset it
\* uses is negative or >= the extent of its dimension, and whenever it is
\* called strict with offsets whose dimension names differ from this's.
C7_LayoutRejectsOutOfRange ==
    (pc = "done" /\ (~UsedOffsetsInRange \/ (arg.strict /\ ~SameNameSets))) => ~out.ok

\* C8: non-strict layout equals strict layout of the offsets restricted to
\* this's dimensions, with 0 for each dimension the offsets lack.
C8_NonStrictIsProjection ==
    (pc = "done" /\ ~arg.strict) =>
        out = layout(allNames, tup.ext, PointTuple(OffPoint), TRUE)

C8_Witness ==
    /\ pc = "done" /\ ~arg.strict
    /\ DimNames(tup.off) \ DimNames(tup.ext) # {}
    /\ DimNames(tup.ext) \ DimNames(tup.off) # {}
    /\ Len(tup.ext.q) = 2
    /\ AllExtentsPositive
    /\ out.ok /\ out.idx > 0

(***************************************************************************)
(* SpecCmp: a caller builds three tuples and compares them.                *)
(***************************************************************************)
MaxCmpVal == 1

CmpVals == 0..MaxCmpVal

InitCmp ==
    \E ap \in DimLists(CmpVals), bp \in DimLists(CmpVals), cp \in DimLists(CmpVals) :
        /\ allNames = PoolAfter(PoolAfter(PoolAfter(<<>>, ap), bp), cp)
        /\ tup = [a |-> MkTuple(<<>>, ap, TRUE),
                  b |-> MkTuple(PoolAfter(<<>>, ap), bp, TRUE),
                  c |-> MkTuple(PoolAfter(PoolAfter(<<>>, ap), bp), cp, TRUE)]
        /\ arg = [strict |-> TRUE]
        /\ out = [x \in {} |-> FALSE]
        /\ pc = "start"
        /\ thr = NoThreads
        /\ stack = <<>>
        /\ visited = <<>>
        /\ hist = NoHistory

\* The caller evaluates every comparison operator on its tuples.
CompareCall ==
    /\ pc = "start"
    /\ out' = [ab_lt |-> TupleLess(allNames, tup.a, tup.b),
               ba_lt |-> TupleLess(allNames, tup.b, tup.a),
               bc_lt |-> TupleLess(allNames, tup.b, tup.c),
               ac_lt |-> TupleLess(allNames, tup.a, tup.c),
               ab_eq |-> TupleEq(allNames, tup.a, tup.b),
               ba_eq |-> TupleEq(allNames, tup.b, tup.a),
               ab_ne |-> TupleNe(allNames, tup.a, tup.b),
               ab_le |-> TupleLe(allNames, tup.a, tup.b),
               ba_le |-> TupleLe(allNames, tup.b, tup.a),
               ab_gt |-> TupleGt(allNames, tup.a, tup.b),
               ab_ge |-> TupleGe(allNames, tup.a, tup.b)]
    /\ pc' = "done"
    /\ UNCHANGED <<allNames, tup, arg, thr, stack, visited, hist>>

NextCmp == CompareCall

SpecCmp == InitCmp /\ [][NextCmp]_vars

\* C9 (as claimed): operator< with operator== is a strict total order:
\* exactly one of a < b, a == b, b < a holds, and a < b and b < c imply a < c.
C9_StrictTotalOrder ==
    pc = "done" =>
        /\ Cardinality({k \in {"lt", "eq", "gt"} :
                           \/ k = "lt" /\ out.ab_lt
                           \/ k = "eq" /\ out.ab_eq
                           \/ k = "gt" /\ out.ba_lt}) = 1
        /\ (out.ab_lt /\ out.bc_lt) => out.ac_lt

\* C10 (as claimed): a != b is the negation of a == b, a <= b holds iff
\* a < b or a == b, a > b holds iff b < a, and a >= b holds iff b <= a.
C10_DerivedComparisons ==
    pc = "done" =>
        /\ out.ab_ne = ~out.ab_eq
        /\ out.ab_le = (out.ab_lt \/ out.ab_eq)
        /\ out.ab_gt = out.ba_lt
        /\ out.ab_ge = out.ba_le

(***************************************************************************)
(* SpecVisit: visitAllPoints(visitor), one recursion frame at a time.  A   *)
(* frame holds curDimNum, step and the loop variable i of its for loop.    *)
(***************************************************************************)
\* setVal(dim, val): the name must exist.
SetVal(P, t, dim, val) == Store(t, Lookup(P, t, dim), val)

\* The first call of the protected visitAllPoints, as the public one makes it.
VisitStartFrameSwapped(this) ==
    IF this.firstInner THEN [cur |-> 0, step |-> 1, i |-> 0]
    ELSE [cur |-> size(this) - 1, step |-> -1, i |-> 0]

VisitStartFrame(this) ==
    IF this.firstInner THEN [cur |-> size(this) - 1, step |-> -1, i |-> 0]
    ELSE [cur |-> 0, step |-> 1, i |-> 0]

InitVisit ==
    \E ep \in DimLists(ExtVals), fi \in BOOLEAN :
        /\ allNames = PoolAfter(<<>>, ep)
        /\ tup = [ext |-> MkTuple(<<>>, ep, fi), tp |-> NewTuple]
        /\ arg = [strict |-> TRUE]
        /\ out = NoResult
        /\ pc = "start"
        /\ thr = NoThreads
        /\ stack = <<>>
        /\ visited = <<>>
        /\ hist = NoHistory

\* The public visitAllPoints: copy this into tp, then visit at once (0-D)
\* or start the recursion.
VisitBegin ==
    /\ pc = "start"
    /\ LET tp == CopyTuple(tup.ext)
       IN /\ tup' = [tup EXCEPT !.tp = tp]
          /\ IF Cardinality(DOMAIN tup.ext.map) = 0
             THEN /\ visited' = <<tp>>
                  /\ stack' = <<>>
                  /\ pc' = "done"
             ELSE /\ visited' = visited
                  /\ stack' = <<VisitStartFrame(tup.ext)>>
                  /\ pc' = "running"
    /\ UNCHANGED <<allNames, arg, out, thr, hist>>

Top == stack[Len(stack)]

BeyondDims(f) == f.cur < 0 \/ f.cur >= size(tup.ext)

\* The stack after the top frame returns: its caller goes on to its i++.
Returning ==
    LET rest == SubSeq(stack, 1, Len(stack) - 1)
    IN IF rest = <<>> THEN rest
       ELSE [rest EXCEPT ![Len(rest)] = [@ EXCEPT !.i = @ + 1]]

\* curDimNum is beyond the last dimension: visitor(tp), return.
VisitorCall ==
    /\ pc = "running"
    /\ BeyondDims(Top)
    /\ visited' = Append(visited, tup.tp)
    /\ stack' = Returning
    /\ pc' = IF stack' = <<>> THEN "done" ELSE "running"
    /\ UNCHANGED <<allNames, tup, arg, out, thr, hist>>

\* for (T i = 0; i < dsize; i++): tp.setVal(tdim, i), recurse.
LoopIter ==
    /\ pc = "running"
    /\ ~BeyondDims(Top)
    /\ LET sc == tup.ext.q[Top.cur + 1]
       IN /\ Top.i < sc.val
          /\ tup' = [tup EXCEPT !.tp = SetVal(allNames, @, getName(allNames, sc.name),
                                              Top.i)]
          /\ stack' = Append(stack, [cur |-> Top.cur + Top.step, step |-> Top.step,
                                     i |-> 0])
    /\ UNCHANGED <<allNames, arg, out, pc, thr, visited, hist>>

\* The for loop ends: return.
LoopExit ==
    /\ pc = "running"
    /\ ~BeyondDims(Top)
    /\ ~(Top.i < tup.ext.q[Top.cur + 1].val)
    /\ stack' = Returning
    /\ pc' = IF stack' = <<>> THEN "done" ELSE "running"
    /\ UNCHANGED <<allNames, tup, arg, out, thr, visited, hist>>

NextVisit == VisitBegin \/ VisitorCall \/ LoopIter \/ LoopExit

SpecVisit == InitVisit /\ [][NextVisit]_vars

AllExtentsNonNegative == \A k \in 1..Len(tup.ext.q) : tup.ext.q[k].val >= 0

\* The point a visited tuple stands for: its value per dimension name.
PointOf(t) == [d \in DimNames(t) |-> ValOf(t, d)]

\* C6: for extents >= 0, visitAllPoints hands the visitor, as its k-th call
\* (from 0), the point whose layout index under this's orientation is k, never
\* the same point twice, and when it is done it has made exactly product()
\* calls: one for a tuple without dimensions, none for one with a 0 extent.
C6_VisitInLayoutOrder ==
    (pc \in {"running", "done"} /\ AllExtentsNonNegative) =>
        /\ \A k \in 1..Len(visited) :
              layout(allNames, tup.ext, visited[k], TRUE) = Returned(k - 1)
        /\ \A j, k \in 1..Len(visited) :
              j # k => PointOf(visited[j]) # PointOf(visited[k])
        /\ pc = "done" => Len(visited) = product(tup.ext)
        /\ (pc = "done" /\ size(tup.ext) = 0) => Len(visited) = 1
        /\ (pc = "done" /\ \E k \in 1..Len(tup.ext.q) : tup.ext.q[k].val = 0) =>
              Len(visited) = 0

C6_Witness ==
    /\ pc = "done"
    /\ size(tup.ext) = 3
    /\ ~tup.ext.firstInner
    /\ Len(visited) = 8
    /\ PointOf(visited[2]) = [d \in {"x", "y", "z"} |->
                                 IF d = NameAt(tup.ext, 3) THEN 1 ELSE 0]

(***************************************************************************)
(* removeDim and the positional setVals.                                   *)
(***************************************************************************)
\* removeDim(dim): a new Tuple with every other dimension added at the back.
RECURSIVE RemoveDimFrom(_, _, _, _, _)
RemoveDimFrom(P, this, dim, n, newt) ==
    IF n > Len(this.q) THEN newt
    ELSE LET tdim == getName(P, this.q[n].name)
         IN RemoveDimFrom(P, this, dim, n + 1,
               IF dim # tdim THEN AddDimBack(P, newt, tdim, this.q[n].val)
               ELSE newt)

removeDim(P, this, dim) == RemoveDimFrom(P, this, dim, 1, NewTuple)

\* setVal(int i, val): the index must exist.
SetValIdx(t, i, val) == Store(t, LookupIdx(t, i), val)

\* setVals(const std::vector<T>& vals): the first min(vals.size(), size())
\* values, by position.
RECURSIVE SetValsFrom(_, _, _)
SetValsFrom(t, vals, i) ==
    LET end == IF Len(vals) < size(t) THEN Len(vals) ELSE size(t)
    IN IF i >= end THEN t
       ELSE SetValsFrom(SetValIdx(t, i, vals[i + 1]), vals, i + 1)

SetVals(t, vals) == SetValsFrom(t, vals, 0)

\* setVals(const Tuple& src, bool addMissing), from element n of src on.
RECURSIVE SetValsTupleFrom(_, _, _, _, _)
SetValsTupleFrom(P, t, src, addMissing, n) ==
    IF n > Len(src.q) THEN t
    ELSE LET dim == getName(P, src.q[n].name)
             val == src.q[n].val
             p == Lookup(P, t, dim)
         IN SetValsTupleFrom(P,
               IF p # NULL THEN Store(t, p, val)
               ELSE IF addMissing THEN AddDimBack(P, t, dim, val)
               ELSE t,
               src, addMissing, n + 1)

\* A setVals that adds the missing names whatever addMissing says.
SetValsTupleAlwaysAdds(P, t, src, addMissing) == SetValsTupleFrom(P, t, src, TRUE, 1)

\* setVals(const Tuple& src, bool addMissing).

SetValsTuple(P, t, src, addMissing) == SetValsTupleFrom(P, t, src, addMissing, 1)

\* setValsSame(val).
SetValsSame(t, val) ==
    [t EXCEPT !.q = [i \in 1..Len(t.q) |-> [t.q[i] EXCEPT !.val = val]]]

\* clear().
ClearKeepsMap(t) == [t EXCEPT !.q = <<>>]

Clear(t) == [t EXCEPT !.q = <<>>, !.map = EmptyMap]

(***************************************************************************)
(* SpecSeq: one thread working on two tuples, a and b, through the public  *)
(* operations, from an empty pool and two empty tuples.                    *)
(***************************************************************************)
MaxSeqVal == 1

SeqVals == 0..MaxSeqVal

TupleIds == {"a", "b"}

\* The names given to the tuples' dimensions; lookup is also called with
\* the third name of Names.
SeqNames == {"x", "y"}

ValLists == UNION {[1..n -> SeqVals] : n \in 0..Cardinality(Names)}

InitSeq ==
    /\ allNames = <<>>
    /\ tup = [t \in TupleIds |-> NewTuple]
    /\ arg = [strict |-> TRUE]
    /\ out = NoResult
    /\ pc = "run"
    /\ thr = NoThreads
    /\ stack = <<>>
    /\ visited = <<>>
    /\ hist = [n \in Names |-> NULL]

\* What the calls _getNamePtr(dim) of an operation do to the pool; hist keeps
\* the pointer returned for a text the first time.
CallGetNamePtr(dim) ==
    /\ allNames' = InsertName(allNames, dim)
    /\ hist' = [hist EXCEPT ![dim] = IF @ = NULL THEN GetNamePtr(allNames, dim) ELSE @]

SeqAddDimBack ==
    \E t \in TupleIds, dim \in SeqNames, val \in SeqVals :
        /\ tup' = [tup EXCEPT ![t] = AddDimBack(allNames, @, dim, val)]
        /\ CallGetNamePtr(dim)
        /\ UNCHANGED <<arg, out, pc, thr, stack, visited>>

SeqAddDimFront ==
    \E t \in TupleIds, dim \in SeqNames, val \in SeqVals :
        /\ tup' = [tup EXCEPT ![t] = AddDimFront(allNames, @, dim, val)]
        /\ CallGetNamePtr(dim)
        /\ UNCHANGED <<arg, out, pc, thr, stack, visited>>

\* lookup(dim), also of a name the tuple lacks.
SeqLookup ==
    \E t \in TupleIds, dim \in Names :
        /\ CallGetNamePtr(dim)
        /\ UNCHANGED <<tup, arg, out, pc, thr, stack, visited>>

\* setVal(dim, val) of a name the tuple has.
SeqSetVal ==
    \E t \in TupleIds, dim \in SeqNames, val \in SeqVals :
        /\ Lookup(allNames, tup[t], dim) # NULL
        /\ tup' = [tup EXCEPT ![t] = SetVal(allNames, @, dim, val)]
        /\ CallGetNamePtr(dim)
        /\ UNCHANGED <<arg, out, pc, thr, stack, visited>>

SeqSetValIdx ==
    \E t \in TupleIds, val \in SeqVals :
        \E i \in 0..(size(tup[t]) - 1) :
            /\ tup' = [tup EXCEPT ![t] = SetValIdx(@, i, val)]
            /\ UNCHANGED <<allNames, arg, out, pc, thr, stack, visited, hist>>

SeqSetVals ==
    \E t \in TupleIds, vals \in ValLists :
        /\ tup' = [tup EXCEPT ![t] = SetVals(@, vals)]
        /\ UNCHANGED <<allNames, arg, out, pc, thr, stack, visited, hist>>

\* t.setVals(u, addMissing); the names of u are in the pool already.
SeqSetValsTuple ==
    \E t \in TupleIds, u \in TupleIds, addMissing \in BOOLEAN :
        /\ t # u
        /\ tup' = [tup EXCEPT ![t] = SetValsTuple(allNames, @, tup[u], addMissing)]
        /\ UNCHANGED <<allNames, arg, out, pc, thr, stack, visited, hist>>

SeqSetValsSame ==
    \E t \in TupleIds, val \in SeqVals :
        /\ tup' = [tup EXCEPT ![t] = SetValsSame(@, val)]
        /\ UNCHANGED <<allNames, arg, out, pc, thr, stack, visited, hist>>

SeqClear ==
    \E t \in TupleIds :
        /\ tup' = [tup EXCEPT ![t] = Clear(@)]
        /\ UNCHANGED <<allNames, arg, out, pc, thr, stack, visited, hist>>

\* t = u (operator=).
SeqCopy ==
    \E t \in TupleIds, u \in TupleIds :
        /\ t # u
        /\ tup' = [tup EXCEPT ![t] = CopyTuple(tup[u])]
        /\ UNCHANGED <<allNames, arg, out, pc, thr, stack, visited, hist>>

\* t = u.removeDim(dim).  removeDim interns only the names it keeps, which
\* are in the pool already.
SeqRemoveDim ==
    \E t \in TupleIds, u \in TupleIds, dim \in Names :
        /\ t # u
        /\ tup' = [tup EXCEPT ![t] = CopyTuple(removeDim(allNames, tup[u], dim))]
        /\ UNCHANGED <<allNames, arg, out, pc, thr, stack, visited, hist>>

NextSeq ==
    \/ SeqAddDimBack
    \/ SeqAddDimFront
    \/ SeqLookup
    \/ SeqSetVal
    \/ SeqSetValIdx
    \/ SeqSetVals
    \/ SeqSetValsTuple
    \/ SeqSetValsSame
    \/ SeqClear
    \/ SeqCopy
    \/ SeqRemoveDim

SpecSeq == InitSeq /\ [][NextSeq]_vars

\* C2: after any sequence of operations, interning a text returns the
\* identity returned for it the first time, the node of that identity still
\* holds the text (nothing is removed from the pool), and two different
\* texts never have the same identity.
C2_InternStable ==
    /\ \A n \in Names :
          hist[n] # NULL =>
              /\ GetNamePtr(allNames, n) = hist[n]
              /\ InsertName(allNames, n) = allNames
              /\ hist[n] \in 1..Len(allNames)
              /\ getName(allNames, hist[n]) = n
    /\ \A n1, n2 \in Names :
          (n1 # n2 /\ hist[n1] # NULL /\ hist[n2] # NULL) => hist[n1] # hist[n2]
    /\ \A n1, n2 \in Names :
          n1 # n2 =>
              GetNamePtr(allNames, n1) # GetNamePtr(InsertName(allNames, n1), n2)

C2_Witness ==
    /\ Len(allNames) = 3
    /\ hist["y"] = 1 /\ hist["z"] = 2 /\ hist["x"] = 3
    /\ size(tup.a) = 0
    /\ size(tup.b) = 1

\* C3: in every tuple (a) no two entries of the deque have the same name and
\* (b) the map has exactly one entry per deque entry, which points to that
\* entry's value slot, so lookup by name and lookup by position agree.
C3_TupleIndexConsistent ==
    \A t \in TupleIds :
        LET q == tup[t].q
        IN /\ \A i, j \in 1..Len(q) :
                 i # j => /\ q[i].name # q[j].name
                          /\ getName(allNames, q[i].name) # getName(allNames, q[j].name)
                          /\ q[i].slot # q[j].slot
           /\ DOMAIN tup[t].map = {q[i].name : i \in 1..Len(q)}
           /\ Cardinality(DOMAIN tup[t].map) = Len(q)
           /\ \A i \in 1..Len(q) :
                 /\ tup[t].map[q[i].name] = q[i].slot
                 /\ Lookup(allNames, tup[t], getName(allNames, q[i].name))
                       = LookupIdx(tup[t], i - 1)

C3_Witness ==
    /\ size(tup.a) = 2
    /\ tup.a.q[1].slot = 2
    /\ tup.a.q[1].val # tup.a.q[2].val
    /\ size(tup.b) = 2
    /\ tup.b.q[1].name = tup.a.q[2].name
    /\ \E n \in Names : hist[n] # NULL /\ hist[n] \notin DOMAIN tup.a.map

(***************************************************************************)
(* SpecIntern: several threads call _getNamePtr (by constructing a Scalar, *)
(* or by lookup/getVal/addDim by name on tuples of their own).  The code   *)
(* takes no lock, so the steps of _allNames.insert of different threads    *)
(* interleave: the search for the key, then the linking of a new node.     *)
(***************************************************************************)
MaxCalls == 2

Threads == {1, 2}

\* The address of a node a thread allocated that did not end up in the pool.
LostNode(t) == 0 - t

InitIntern ==
    /\ allNames = <<>>
    /\ tup = [t \in {} |-> NewTuple]
    /\ arg = [strict |-> TRUE]
    /\ out = NoResult
    /\ pc = "run"
    /\ thr = [t \in Threads |->
                [pc |-> "idle", name |-> "", pos |-> NULL, seen |-> 0,
                 ret |-> NULL, calls |-> 0]]
    /\ stack = <<>>
    /\ visited = <<>>
    /\ hist = [n \in Names |-> NULL]

InsideInsert(t) == thr[t].pc \in {"search", "link"}

\* _getNamePtr(name) is entered: _allNames.insert(name) begins.
ThreadCall(t) ==
    /\ thr[t].pc = "idle"
    /\ thr[t].calls < MaxCalls
    /\ \E name \in Names :
          thr' = [thr EXCEPT ![t] = [@ EXCEPT !.pc = "search", !.name = name,
                                                !.calls = @ + 1]]
    /\ UNCHANGED <<allNames, tup, arg, out, pc, stack, visited, hist>>

\* insert walks the tree for the key.
ThreadSearch(t) ==
    /\ thr[t].pc = "search"
    /\ thr' = [thr EXCEPT ![t] = [@ EXCEPT !.pc = "link",
                                          !.pos = FindName(allNames, thr[t].name),
                                          !.seen = Len(allNames)]]
    /\ UNCHANGED <<allNames, tup, arg, out, pc, stack, visited, hist>>

\* insert ends: the key was found, or a new node is linked where the search
\* ended.  When another thread has changed the tree since the search, this
\* is a data race: the node is linked beside an equal one, or its link is
\* lost.
ThreadLink(t) ==
    /\ thr[t].pc = "link"
    /\ \/ /\ thr[t].pos # NULL
          /\ allNames' = allNames
          /\ thr' = [thr EXCEPT ![t] = [@ EXCEPT !.pc = "return", !.ret = thr[t].pos]]
       \/ /\ thr[t].pos = NULL
          /\ allNames' = Append(allNames, thr[t].name)
          /\ thr' = [thr EXCEPT ![t] = [@ EXCEPT !.pc = "return",
                                                !.ret = Len(allNames) + 1]]
       \/ /\ thr[t].pos = NULL
          /\ thr[t].seen # Len(allNames)
          /\ allNames' = allNames
          /\ thr' = [thr EXCEPT ![t] = [@ EXCEPT !.pc = "return", !.ret = LostNode(t)]]
    /\ UNCHANGED <<tup, arg, out, pc, stack, visited, hist>>

\* _getNamePtr returns &*i.first.
ThreadReturn(t) ==
    /\ thr[t].pc = "return"
    /\ thr' = [thr EXCEPT ![t] = [@ EXCEPT !.pc = "idle"]]
    /\ hist' = [hist EXCEPT ![thr[t].name] = IF @ = NULL THEN thr[t].ret ELSE @]
    /\ UNCHANGED <<allNames, tup, arg, out, pc, stack, visited>>

NextIntern ==
    \E t \in Threads :
        \/ ThreadCall(t)
        \/ ThreadSearch(t)
        \/ ThreadLink(t)
        \/ ThreadReturn(t)

SpecIntern == InitIntern /\ [][NextIntern]_vars

\* C1 (as claimed): no two threads are inside the pool's insertion at the
\* same time, and every call returns the identity a sequential execution
\* returns for its text: the one node of the pool that holds the text, the
\* same for every call with that text.
C1_ConcurrentInternSafe ==
    /\ \A t1, t2 \in Threads : t1 # t2 => ~(InsideInsert(t1) /\ InsideInsert(t2))
    /\ \A t \in Threads :
          thr[t].pc = "return" =>
              /\ thr[t].ret \in 1..Len(allNames)
              /\ allNames[thr[t].ret] = thr[t].name
              /\ \A i \in 1..Len(allNames) :
                    allNames[i] = thr[t].name => i = thr[t].ret
              /\ hist[thr[t].name] # NULL => thr[t].ret = hist[thr[t].name]

(***************************************************************************)
(* Element-wise operations, union, direction tests and reductions.  A T    *)
(* function passed as std::function is named by the operation: "add",      *)
(* "mult", "max", "min".                                                    *)
(***************************************************************************)
Funcs == {"add", "mult", "max", "min"}

\* The lambdas of add/mult/max/minElements and of sum/product/max/min.
Apply(f, lhs, rhs) ==
    CASE f = "add" -> lhs + rhs
      [] f = "mult" -> lhs * rhs
      [] f = "max" -> IF lhs < rhs THEN rhs ELSE lhs
      [] f = "min" -> IF rhs < lhs THEN rhs ELSE lhs

\* A call that returned a value (a tuple, a T or a bool).
ReturnedVal(v) == [ok |-> TRUE, res |-> v]

\* mapElements(func, rhs), the loop from element n on: "for (auto i :
\* newt._q)" copies the element into i, and tval refers to the value of that
\* copy, so the assignment to tval does not reach newt.
RECURSIVE MapFrom(_, _, _, _)
MapFrom(newt, f, rhs, n) ==
    IF n > Len(newt.q) THEN newt
    ELSE LET i == [newt.q[n] EXCEPT !.val = Apply(f, newt.q[n].val, rhs)]
         IN MapFrom(newt, f, rhs, n + 1)

\* mapElements(func, rhs): addElements(T), multElements(T), maxElements(T),
\* minElements(T).
mapElements(this, f, rhs) == MapFrom(CopyTuple(this), f, rhs, 1)

\* combineElements(combiner, rhs, strictRhs), the loop from element n of this.
RECURSIVE CombineFrom(_, _, _, _, _, _)
CombineFrom(P, this, rhs, f, n, newt) ==
    IF n > Len(this.q) THEN newt
    ELSE LET tdim == getName(P, this.q[n].name)
             tval == this.q[n].val
             rp == Lookup(P, rhs, tdim)
         IN CombineFrom(P, this, rhs, f, n + 1,
               IF rp # NULL THEN SetVal(P, newt, tdim, Apply(f, tval, Deref(rhs, rp)))
               ELSE newt)

\* A combineElements that takes the value of rhs for a shared dimension.
combineElementsRhsOnly(P, this, rhs, f, strictRhs) ==
    IF strictRhs /\ ~areDimsSame(P, this, rhs) THEN ContractViolation
    ELSE ReturnedVal(SetValsTuple(P, CopyTuple(this), rhs, FALSE))

\* combineElements(combiner, rhs, strictRhs): add/mult/max/minElements of
\* two tuples.
combineElements(P, this, rhs, f, strictRhs) ==
    IF strictRhs /\ ~areDimsSame(P, this, rhs) THEN ContractViolation
    ELSE ReturnedVal(CombineFrom(P, this, rhs, f, 1, CopyTuple(this)))

\* makeUnionWith(rhs), the loop from element n of rhs.
RECURSIVE UnionFrom(_, _, _, _)
UnionFrom(P, u, rhs, n) ==
    IF n > Len(rhs.q) THEN u
    ELSE LET dim == getName(P, rhs.q[n].name)
             val == rhs.q[n].val
             p == Lookup(P, u, dim)
         IN UnionFrom(P, IF p = NULL THEN AddDimBack(P, u, dim, val) ELSE u, rhs, n + 1)

\* A union in which the value of rhs wins.
makeUnionWithRhsWins(P, this, rhs) == SetValsTuple(P, CopyTuple(this), rhs, TRUE)

\* makeUnionWith(rhs).
makeUnionWith(P, this, rhs) == UnionFrom(P, CopyTuple(this), rhs, 1)

\* An isInlineInDir that compares the direction's dimension too.
isInlineInDirAllDims(P, this, t2, dname) ==
    IF ~areDimsSame(P, this, t2) THEN ContractViolation
    ELSE ReturnedVal(\A i \in 1..Len(this.q) :
            this.q[i].val = getVal(P, t2, getName(P, this.q[i].name)))

\* isInlineInDir(t2, dir), dname the name of dir.
isInlineInDir(P, this, t2, dname) ==
    IF ~areDimsSame(P, this, t2) THEN ContractViolation
    ELSE ReturnedVal(\A i \in 1..Len(this.q) :
            LET tdim == getName(P, this.q[i].name)
            IN ~(tdim # dname /\ this.q[i].val # getVal(P, t2, tdim)))

\* isAheadOfInDir(t2, dir), dn and dv the name and value of dir; getVal(dn)
\* asserts that this has dn.
isAheadOfInDir(P, this, t2, dn, dv) ==
    IF ~areDimsSame(P, this, t2) THEN ContractViolation
    ELSE IF Lookup(P, this, dn) = NULL \/ Lookup(P, t2, dn) = NULL THEN ContractViolation
    ELSE LET tv == getVal(P, this, dn)
             v2 == getVal(P, t2, dn)
         IN ReturnedVal(isInlineInDir(P, this, t2, dn).res
                        /\ ((dv > 0 /\ tv > v2) \/ (dv < 0 /\ tv < v2)))

\* A reduce that starts from 0 instead of from the first value.
RECURSIVE ReduceFromZero(_, _, _, _)
ReduceFromZero(this, f, n, result) ==
    IF n > Len(this.q) THEN result
    ELSE ReduceFromZero(this, f, n + 1, Apply(f, result, this.q[n].val))

\* reduce(reducer), from element n on: the first value, then
\* reducer(result, value).
RECURSIVE Reduce(_, _, _, _)
Reduce(this, f, n, result) ==
    IF n > Len(this.q) THEN result
    ELSE Reduce(this, f, n + 1,
                IF n = 1 THEN this.q[n].val ELSE Apply(f, result, this.q[n].val))

\* sum(), max(), min(); product() is defined with layout.
sum(this) == Reduce(this, "add", 1, 0)
max(this) == Reduce(this, "max", 1, 0)
min(this) == Reduce(this, "min", 1, 0)

(***************************************************************************)
(* SpecOps: a caller builds two tuples, a and b, and calls one operation   *)
(* on them.  hist keeps the tuples as they were before a mutating call.    *)
(***************************************************************************)
MaxOpVal == 1

OpVals == 0..MaxOpVal

\* The constants given to the scalar element-wise operations.
ScalarVals == (-1)..MaxOpVal

\* The values of a direction: backward, none, forward.
DirVals == {-1, 0, 1}

InitOps ==
    \E ap \in DimLists(OpVals), bp \in DimLists(OpVals) :
        /\ allNames = PoolAfter(PoolAfter(<<>>, ap), bp)
        /\ tup = [a |-> MkTuple(<<>>, ap, TRUE),
                  b |-> MkTuple(PoolAfter(<<>>, ap), bp, TRUE)]
        /\ arg = [op |-> "none"]
        /\ out = NoResult
        /\ pc = "start"
        /\ thr = NoThreads
        /\ stack = <<>>
        /\ visited = <<>>
        /\ hist = NoHistory

\* a.addElements(c), a.multElements(c), a.maxElements(c), a.minElements(c).
MapCall ==
    /\ pc = "start"
    /\ \E f \in Funcs, c \in ScalarVals :
        /\ arg' = [op |-> "map", f |-> f, c |-> c]
        /\ out' = ReturnedVal(mapElements(tup.a, f, c))
    /\ pc' = "done"
    /\ UNCHANGED <<allNames, tup, thr, stack, visited, hist>>

\* a.addElements(b, strictRhs) and the like.
CombineCall ==
    /\ pc = "start"
    /\ \E f \in Funcs, strictRhs \in BOOLEAN :
        /\ arg' = [op |-> "combine", f |-> f, strict |-> strictRhs]
        /\ out' = combineElements(allNames, tup.a, tup.b, f, strictRhs)
    /\ pc' = "done"
    /\ UNCHANGED <<allNames, tup, thr, stack, visited, hist>>

\* a.makeUnionWith(b), b.makeUnionWith(a) and a.makeUnionWith(a).
UnionCall ==
    /\ pc = "start"
    /\ arg' = [op |-> "union"]
    /\ out' = [ok |-> TRUE,
               res |-> makeUnionWith(allNames, tup.a, tup.b),
               rev |-> makeUnionWith(allNames, tup.b, tup.a),
               self |-> makeUnionWith(allNames, tup.a, tup.a)]
    /\ pc' = "done"
    /\ UNCHANGED <<allNames, tup, thr, stack, visited, hist>>

\* a.areDimsSame(b), b.areDimsSame(a), a == b, b == a.
DimsSameCall ==
    /\ pc = "start"
    /\ arg' = [op |-> "same"]
    /\ out' = [ok |-> TRUE,
               ab_same |-> areDimsSame(allNames, tup.a, tup.b),
               ba_same |-> areDimsSame(allNames, tup.b, tup.a),
               ab_eq |-> TupleEq(allNames, tup.a, tup.b),
               ba_eq |-> TupleEq(allNames, tup.b, tup.a)]
    /\ pc' = "done"
    /\ UNCHANGED <<allNames, tup, thr, stack, visited, hist>>

\* Scalar dir(d, v); a.isInlineInDir(b, dir); a.isAheadOfInDir(b, dir).
DirCall ==
    /\ pc = "start"
    /\ \E d \in Names, v \in DirVals :
        /\ allNames' = InsertName(allNames, d)
        /\ arg' = [op |-> "dir", d |-> d, v |-> v]
        /\ out' = [ok |-> TRUE,
                   inline |-> isInlineInDir(allNames', tup.a, tup.b, d),
                   ahead |-> isAheadOfInDir(allNames', tup.a, tup.b, d, v)]
    /\ pc' = "done"
    /\ UNCHANGED <<tup, thr, stack, visited, hist>>

\* a.sum(), a.product(), a.max(), a.min().
ReduceCall ==
    /\ pc = "start"
    /\ \E f \in Funcs :
        /\ arg' = [op |-> "reduce", f |-> f]
        /\ out' = ReturnedVal(CASE f = "add" -> sum(tup.a)
                                [] f = "mult" -> product(tup.a)
                                [] f = "max" -> max(tup.a)
                                [] f = "min" -> min(tup.a))
    /\ pc' = "done"
    /\ UNCHANGED <<allNames, tup, thr, stack, visited, hist>>

\* a.setVals(b, addMissing).
SetValsCall ==
    /\ pc = "start"
    /\ \E addMissing \in BOOLEAN :
        /\ arg' = [op |-> "setVals", addMissing |-> addMissing]
        /\ tup' = [tup EXCEPT !.a = SetValsTuple(allNames, @, tup.b, addMissing)]
    /\ hist' = tup
    /\ out' = [ok |-> TRUE]
    /\ pc' = "done"
    /\ UNCHANGED <<allNames, thr, stack, visited>>

NextOps ==
    \/ MapCall
    \/ CombineCall
    \/ UnionCall
    \/ DimsSameCall
    \/ DirCall
    \/ ReduceCall
    \/ SetValsCall

SpecOps == InitOps /\ [][NextOps]_vars

\* The names of a tuple in its order, as texts.
NameSeq(t) == [k \in 1..Len(t.q) |-> getName(allNames, t.q[k].name)]

\* The values of a tuple in its order.
ValSeq(t) == [k \in 1..Len(t.q) |-> t.q[k].val]

\* C11 (as claimed): a scalar element-wise operation returns a tuple with
\* this's dimensions in this's order in which every value is f(value, c).
C11_ScalarBroadcast ==
    (pc = "done" /\ arg.op = "map") =>
        /\ NameSeq(out.res) = NameSeq(tup.a)
        /\ ValSeq(out.res) = [k \in 1..Len(tup.a.q) |->
                                 Apply(arg.f, tup.a.q[k].val, arg.c)]

\* C12: a tuple-with-tuple element-wise operation returns a tuple with
\* exactly this's dimensions in this's order; a dimension rhs also has gets
\* f(this's value, rhs's value), a dimension rhs lacks keeps this's value and
\* a dimension only rhs has is not added; in strict mode a differing set of
\* dimension names is a ContractViolation.
C12_CombineElements ==
    (pc = "done" /\ arg.op = "combine") =>
        IF arg.strict /\ DimNames(tup.a) # DimNames(tup.b) THEN ~out.ok
        ELSE /\ out.ok
             /\ NameSeq(out.res) = NameSeq(tup.a)
             /\ \A k \in 1..Len(tup.a.q) :
                   out.res.q[k].val =
                       IF NameAt(tup.a, k) \in DimNames(tup.b)
                       THEN Apply(arg.f, tup.a.q[k].val, ValOf(tup.b, NameAt(tup.a, k)))
                       ELSE tup.a.q[k].val

C12_Witness ==
    /\ pc = "done" /\ arg.op = "combine" /\ ~arg.strict /\ out.ok
    /\ DimNames(tup.a) \ DimNames(tup.b) # {}
    /\ DimNames(tup.b) \ DimNames(tup.a) # {}
    /\ \E d \in DimNames(tup.a) \cap DimNames(tup.b) :
          ValOf(out.res, d) # ValOf(tup.a, d) /\ ValOf(out.res, d) # ValOf(tup.b, d)

(***************************************************************************)
(* SpecMut: a caller builds a tuple a with either orientation and calls   *)
(* removeDim on it, or adds one more dimension at either end, copies it    *)
(* into c and then adds or sets on one of the two.  hist keeps the tuples  *)
(* as they were before the last mutating call.                             *)
(***************************************************************************)
InitMut ==
    \E ap \in DimLists(OpVals), fi \in BOOLEAN :
        /\ allNames = PoolAfter(<<>>, ap)
        /\ tup = [a |-> MkTuple(<<>>, ap, fi)]
        /\ arg = [op |-> "none"]
        /\ out = NoResult
        /\ pc = "start"
        /\ thr = NoThreads
        /\ stack = <<>>
        /\ visited = <<>>
        /\ hist = NoHistory

\* a.addDimBack(dim, val).
AddDimBackCall ==
    /\ pc = "start"
    /\ \E dim \in Names, val \in OpVals :
        /\ arg' = [op |-> "addDim", front |-> FALSE, dim |-> dim, val |-> val]
        /\ allNames' = InsertName(allNames, dim)
        /\ tup' = [tup EXCEPT !.a = AddDimBack(allNames, @, dim, val)]
    /\ hist' = tup
    /\ pc' = "added"
    /\ UNCHANGED <<out, thr, stack, visited>>

\* a.addDimFront(dim, val).
AddDimFrontCall ==
    /\ pc = "start"
    /\ \E dim \in Names, val \in OpVals :
        /\ arg' = [op |-> "addDim", front |-> TRUE, dim |-> dim, val |-> val]
        /\ allNames' = InsertName(allNames, dim)
        /\ tup' = [tup EXCEPT !.a = AddDimFront(allNames, @, dim, val)]
    /\ hist' = tup
    /\ pc' = "added"
    /\ UNCHANGED <<out, thr, stack, visited>>

\* Tuple c = a.
CopyCall ==
    /\ pc \in {"start", "added"}
    /\ arg' = [op |-> "copy"]
    /\ tup' = [a |-> tup.a, c |-> CopyTuple(tup.a)]
    /\ hist' = tup
    /\ pc' = "copied"
    /\ UNCHANGED <<allNames, out, thr, stack, visited>>

\* After the copy: addDimBack, addDimFront or setVal (of a name that exists)
\* on the original or on the copy.
MutateAfterCopy ==
    /\ pc = "copied"
    /\ \E t \in {"a", "c"}, kind \in {"addDimBack", "addDimFront", "setVal"},
          dim \in Names, val \in OpVals :
        /\ kind = "setVal" => Lookup(allNames, tup[t], dim) # NULL
        /\ arg' = [op |-> "mutate", t |-> t, kind |-> kind, dim |-> dim, val |-> val]
        /\ allNames' = InsertName(allNames, dim)
        /\ tup' = [tup EXCEPT ![t] =
                      CASE kind = "addDimBack" -> AddDimBack(allNames, @, dim, val)
                        [] kind = "addDimFront" -> AddDimFront(allNames, @, dim, val)
                        [] kind = "setVal" -> SetVal(allNames, @, dim, val)]
    /\ hist' = tup
    /\ pc' = "done"
    /\ UNCHANGED <<out, thr, stack, visited>>

\* a.removeDim(dim).
RemoveDimCall ==
    /\ pc = "start"
    /\ \E dim \in Names :
        /\ arg' = [op |-> "removeDim", dim |-> dim]
        /\ out' = ReturnedVal(removeDim(allNames, tup.a, dim))
    /\ pc' = "done"
    /\ UNCHANGED <<allNames, tup, thr, stack, visited, hist>>

NextMut ==
    \/ AddDimBackCall
    \/ AddDimFrontCall
    \/ CopyCall
    \/ MutateAfterCopy
    \/ RemoveDimCall

SpecMut == InitMut /\ [][NextMut]_vars

\* C13: addDimFront and addDimBack are set-or-append.  If the name is in the
\* tuple, the names and their order stay and only that name's value becomes
\* the given one; if not, the tuple is the old one with the new entry put at
\* the requested end.
C13_AddDimSetOrAppend ==
    (pc = "added" /\ arg.op = "addDim") =>
        LET old == hist.a
            new == tup.a
        IN IF arg.dim \in DimNames(old)
           THEN /\ NameSeq(new) = NameSeq(old)
                /\ \A k \in 1..Len(old.q) :
                      new.q[k].val = IF NameAt(old, k) = arg.dim THEN arg.val
                                     ELSE old.q[k].val
           ELSE IF arg.front
           THEN /\ NameSeq(new) = <<arg.dim>> \o NameSeq(old)
                /\ ValSeq(new) = <<arg.val>> \o ValSeq(old)
           ELSE /\ NameSeq(new) = Append(NameSeq(old), arg.dim)
                /\ ValSeq(new) = Append(ValSeq(old), arg.val)

C13_Witness ==
    /\ pc = "added" /\ arg.op = "addDim" /\ arg.front
    /\ arg.dim \notin DimNames(hist.a)
    /\ Len(hist.a.q) = 2
    /\ hist.a.q[1].val # hist.a.q[2].val
    /\ Len(tup.a.q) = 3

\* C14: a.makeUnionWith(b) has the names of a and of b and no other; a name
\* of a has a's value, a name only b has has b's value; a.makeUnionWith(a)
\* equals a; a.makeUnionWith(b) and b.makeUnionWith(a) have the same names.
C14_UnionWith ==
    (pc = "done" /\ arg.op = "union") =>
        /\ DimNames(out.res) = DimNames(tup.a) \cup DimNames(tup.b)
        /\ Len(out.res.q) = Cardinality(DimNames(out.res))
        /\ \A d \in DimNames(out.res) :
              ValOf(out.res, d) = IF d \in DimNames(tup.a) THEN ValOf(tup.a, d)
                                  ELSE ValOf(tup.b, d)
        /\ TupleEq(allNames, out.self, tup.a)
        /\ NameSeq(out.self) = NameSeq(tup.a) /\ ValSeq(out.self) = ValSeq(tup.a)
        /\ DimNames(out.rev) = DimNames(out.res)
        /\ areDimsSame(allNames, out.res, out.rev)

C14_Witness ==
    /\ pc = "done" /\ arg.op = "union"
    /\ DimNames(tup.a) \ DimNames(tup.b) # {}
    /\ DimNames(tup.b) \ DimNames(tup.a) # {}
    /\ \E d \in DimNames(tup.a) \cap DimNames(tup.b) : ValOf(tup.a, d) # ValOf(tup.b, d)
    /\ ~TupleEq(allNames, out.res, out.rev)

\* The names of src that t lacks, in the order of src.
MissingNames(t, src) == SelectSeq(NameSeq(src), LAMBDA d : d \notin DimNames(t))

\* C15: a.setVals(b, addMissing) gives every name of a that b has b's value,
\* leaves the other names of a with their values, keeps the order of a's
\* names, and appends the names only b has, in b's order and with b's
\* values, iff addMissing; b is not changed.
C15_SetValsFromTuple ==
    (pc = "done" /\ arg.op = "setVals") =>
        LET old == hist.a
            new == tup.a
            added == IF arg.addMissing THEN MissingNames(old, tup.b) ELSE <<>>
        IN /\ NameSeq(new) = NameSeq(old) \o added
           /\ \A k \in 1..Len(old.q) :
                 new.q[k].val = IF NameAt(old, k) \in DimNames(tup.b)
                                THEN ValOf(tup.b, NameAt(old, k))
                                ELSE old.q[k].val
           /\ \A k \in 1..Len(added) :
                 new.q[Len(old.q) + k].val = ValOf(tup.b, added[k])
           /\ tup.b = hist.b

C15_Witness ==
    /\ pc = "done" /\ arg.op = "setVals" /\ ~arg.addMissing
    /\ DimNames(tup.b) \ DimNames(hist.a) # {}
    /\ DimNames(hist.a) \ DimNames(tup.b) # {}
    /\ \E d \in DimNames(hist.a) \cap DimNames(tup.b) :
          ValOf(hist.a, d) # ValOf(tup.b, d) /\ ValOf(tup.a, d) = ValOf(tup.b, d)

\* C16: a copy has the names, order, values and orientation flag of the
\* original; its map has one entry per element of the copy, pointing to the
\* copy's own slot of that element, so lookup by name and by position agree
\* in the copy; the original is as it was.  A later addDimBack, addDimFront
\* or setVal on one of the two takes effect there (the name has the given
\* value, every other name keeps its value) and leaves the other as it was.
C16_CopyIsDeep ==
    /\ pc = "copied" =>
          /\ NameSeq(tup.c) = NameSeq(tup.a)
          /\ ValSeq(tup.c) = ValSeq(tup.a)
          /\ tup.c.firstInner = tup.a.firstInner
          /\ DOMAIN tup.c.map = {tup.c.q[k].name : k \in 1..Len(tup.c.q)}
          /\ \A k \in 1..Len(tup.c.q) :
                /\ Lookup(allNames, tup.c, NameAt(tup.c, k)) # NULL
                /\ Lookup(allNames, tup.c, NameAt(tup.c, k)) = LookupIdx(tup.c, k - 1)
          /\ tup.a = hist.a
    /\ (pc = "done" /\ arg.op = "mutate") =>
          LET other == IF arg.t = "a" THEN "c" ELSE "a"
              old == hist[arg.t]
              new == tup[arg.t]
          IN /\ tup[other] = hist[other]
             /\ NameSeq(tup[other]) = NameSeq(hist[other])
             /\ ValSeq(tup[other]) = ValSeq(hist[other])
             /\ arg.dim \in DimNames(new)
             /\ ValOf(new, arg.dim) = arg.val
             /\ \A d \in DimNames(old) \ {arg.dim} :
                   d \in DimNames(new) /\ ValOf(new, d) = ValOf(old, d)

C16_Witness ==
    /\ pc = "done" /\ arg.op = "mutate" /\ arg.t = "c" /\ arg.kind = "setVal"
    /\ Len(tup.a.q) = 2
    /\ tup.a.q[1].slot = 2
    /\ ~tup.a.firstInner
    /\ ValOf(hist.c, arg.dim) # arg.val
    /\ ValOf(tup.a, arg.dim) # arg.val
    /\ tup.a.q[1].val # tup.a.q[2].val

\* C17 (as claimed): removeDim(name) returns a tuple holding every dimension
\* of this except name, in this's order and with this's values, and when
\* name is not in this the result is a copy of this (what Tuple(const
\* Tuple&) gives).
C17_RemoveDim ==
    (pc = "done" /\ arg.op = "removeDim") =>
        LET kept == SelectSeq(NameSeq(tup.a), LAMBDA d : d # arg.dim)
        IN /\ NameSeq(out.res) = kept
           /\ \A k \in 1..Len(kept) : out.res.q[k].val = ValOf(tup.a, kept[k])
           /\ arg.dim \notin DimNames(tup.a) => out.res = CopyTuple(tup.a)

\* C18: areDimsSame is true iff the two tuples have the same set of names,
\* whatever the order; operator== is true iff they have the same set of
\* names and every name has the same value in both; both give the same
\* answer with the operands exchanged.
C18_DimsSameAndEq ==
    (pc = "done" /\ arg.op = "same") =>
        /\ out.ab_same = (DimNames(tup.a) = DimNames(tup.b))
        /\ out.ab_eq = (/\ DimNames(tup.a) = DimNames(tup.b)
                        /\ \A d \in DimNames(tup.a) : ValOf(tup.a, d) = ValOf(tup.b, d))
        /\ out.ba_same = out.ab_same
        /\ out.ba_eq = out.ab_eq

C18_Witness ==
    /\ pc = "done" /\ arg.op = "same"
    /\ Len(tup.a.q) = 2
    /\ NameSeq(tup.a) # NameSeq(tup.b)
    /\ tup.a.q[1].val # tup.a.q[2].val
    /\ out.ab_same /\ out.ab_eq

\* C19: for tuples with the same set of names and a direction (d, v),
\* isInlineInDir is true iff every name other than d has the same value in
\* both; when the tuples have d, isAheadOfInDir is true iff isInlineInDir is
\* and either v > 0 and this[d] > other[d] or v < 0 and this[d] < other[d],
\* so it is false for v = 0 and for this[d] = other[d].
C19_InlineAndAhead ==
    (pc = "done" /\ arg.op = "dir" /\ DimNames(tup.a) = DimNames(tup.b)) =>
        LET inl == \A e \in DimNames(tup.a) \ {arg.d} : ValOf(tup.a, e) = ValOf(tup.b, e)
        IN /\ out.inline.ok
           /\ out.inline.res = inl
           /\ arg.d \in DimNames(tup.a) =>
                 LET tv == ValOf(tup.a, arg.d)
                     v2 == ValOf(tup.b, arg.d)
                 IN /\ out.ahead.ok
                    /\ out.ahead.res = (inl /\ (\/ arg.v > 0 /\ tv > v2
                                                \/ arg.v < 0 /\ tv < v2))
                    /\ arg.v = 0 => ~out.ahead.res
                    /\ tv = v2 => ~out.ahead.res

C19_Witness ==
    /\ pc = "done" /\ arg.op = "dir" /\ DimNames(tup.a) = DimNames(tup.b)
    /\ Len(tup.a.q) = 2
    /\ NameSeq(tup.a) # NameSeq(tup.b)
    /\ arg.v < 0
    /\ out.ahead.ok /\ out.ahead.res
    /\ ~TupleEq(allNames, tup.a, tup.b)

\* The left fold of f over the first n values (n >= 1), from the first value.
RECURSIVE FoldLeft(_, _, _)
FoldLeft(f, vals, n) ==
    IF n = 1 THEN vals[1] ELSE Apply(f, FoldLeft(f, vals, n - 1), vals[n])

\* C20: sum, product, max and min are the left fold of their function over
\* the values in tuple order, starting from the first value; for a tuple
\* without dimensions product() is 1 and sum() is 0; for a tuple with one
\* dimension all four return its value.
C20_Reductions ==
    (pc = "done" /\ arg.op = "reduce") =>
        LET n == Len(tup.a.q)
        IN /\ (n = 0 /\ arg.f = "mult") => out.res = 1
           /\ (n = 0 /\ arg.f = "add") => out.res = 0
           /\ n = 1 => out.res = tup.a.q[1].val
           /\ n >= 1 => out.res = FoldLeft(arg.f, ValSeq(tup.a), n)

C20_Witness ==
    /\ pc = "done" /\ arg.op = "reduce" /\ arg.f = "min"
    /\ Len(tup.a.q) = 3
    /\ tup.a.q[1].val > tup.a.q[2].val
    /\ out.res = tup.a.q[2].val

\* C29 (as claimed): the tuple removeDim returns has the firstInner value of
\* this, whether or not the name is present.
C29_RemoveDimKeepsOrientation ==
    (pc = "done" /\ arg.op = "removeDim") => out.res.firstInner = tup.a.firstInner

\* C30 (as claimed): layout on an extents tuple that holds a negative extent
\* never returns an index, whatever the offsets tuple and the mode.
C30_NegativeExtentRejected ==
    (pc = "done" /\ \E k \in 1..Len(tup.ext.q) : tup.ext.q[k].val < 0) => ~out.ok

(***************************************************************************)
(* real_vec_t (src/src/realv.hpp): a vector of VLEN lanes.  A build is a   *)
(* record c: rb is REAL_BYTES, intrin says which of USE_INTRIN256 and      *)
(* USE_INTRIN512 is defined ("none": neither), fold is <<VLEN_N, VLEN_X,   *)
(* VLEN_Y, VLEN_Z>> and fdus is VLEN_FIRST_DIM_IS_UNIT_STRIDE.  A vector   *)
(* is a function from the lanes 0..VLEN-1 to lane values.                  *)
(***************************************************************************)
VLEN(c) == c.fold[1] * c.fold[2] * c.fold[3] * c.fold[4]

Lanes(c) == 0..(VLEN(c) - 1)

\* vec_elems: the lanes of the hardware vector.
vec_elems(c) ==
    IF c.rb = 4 THEN (IF c.intrin = "256" THEN 8 ELSE 16)
    ELSE (IF c.intrin = "256" THEN 4 ELSE 8)

ctrl_idx_mask(c) == IF c.rb = 4 THEN 15 ELSE 7

ctrl_sel_bit(c) == IF c.rb = 4 THEN 16 ELSE 8

\* NO_INTRINSICS is defined: the build emulates the vector instructions.
NO_INTRINSICS(c) == VLEN(c) = 1 \/ c.intrin = "none" \/ VLEN(c) # vec_elems(c)

\* The build calls the 512-bit align and permute instructions themselves,
\* which are hardware and no code of realv.hpp.
Intrinsic512Path(c) == ~NO_INTRINSICS(c) /\ c.intrin = "512"

\* The fold shapes of the builds drawn.
Folds ==
    {<<1, 1, 1, 1>>, <<1, 2, 1, 1>>, <<1, 2, 2, 1>>, <<2, 1, 1, 2>>,
     <<1, 2, 2, 2>>, <<1, 4, 4, 1>>}

VecConfigs ==
    [rb : {4, 8}, intrin : {"none", "256", "512"}, fold : Folds, fdus : BOOLEAN]

\* res = a result of a vector call: the objects afterwards, or a fault.
VecFault == [ok |-> FALSE]

\* real_vec_align<count> with NO_INTRINSICS: tmpa = a, tmpb = b, then the two
\* loops write the lanes of res from lane i on.
RECURSIVE AlignLoop(_, _, _, _, _, _, _)
AlignLoop(c, v, res, tmpa, tmpb, count, i) ==
    IF i >= VLEN(c) THEN v
    ELSE AlignLoop(c,
            [v EXCEPT ![res][i] = IF i < VLEN(c) - count THEN tmpb[i + count]
                                  ELSE tmpa[i + count - VLEN(c)]],
            res, tmpa, tmpb, count, i + 1)

\* real_vec_align<count>(res, a, b) with NO_INTRINSICS.
AlignEmul(c, v, res, a, b, count) == AlignLoop(c, v, res, v[a], v[b], count, 0)

\* real_vec_align<count>(res, a, b) with USE_INTRIN256: b and a are stored
\* into real_t r2[2 * VLEN] through real_vec_t pointers and res is loaded
\* through a real_vec_t pointer to r2[count].  r2 has the alignment of
\* real_t: base is its distance in lanes from a vector boundary, and an
\* access through a real_vec_t pointer off a vector boundary faults when
\* the build has made it an aligned move.
Align256(c, v, res, a, b, count, base, alignedMoves) ==
    LET r2 == [l \in 0..(2 * VLEN(c) - 1) |->
                  IF l < VLEN(c) THEN v[b][l] ELSE v[a][l - VLEN(c)]]
        misaligned == base % VLEN(c) # 0 \/ (base + count) % VLEN(c) # 0
    IN IF alignedMoves /\ misaligned THEN VecFault
       ELSE [ok |-> TRUE, v |-> [v EXCEPT ![res] = [i \in Lanes(c) |-> r2[count + i]]]]

\* real_vec_align<count>(res, a, b) of a build without the 512-bit
\* instruction.
real_vec_align(c, v, res, a, b, count, base, alignedMoves) ==
    IF NO_INTRINSICS(c) THEN [ok |-> TRUE, v |-> AlignEmul(c, v, res, a, b, count)]
    ELSE Align256(c, v, res, a, b, count, base, alignedMoves)

\* Bit i of the mask k1: (k1 >> i) & 1.
MaskBit(k1, i) == (k1 \div (2 ^ i)) % 2

\* real_vec_align_masked<count>(res, a, b, k1) of a build without the
\* 512-bit instruction: tmpa = a, tmpb = b, then the lanes whose bit is set.
real_vec_align_masked(c, v, res, a, b, count, k1) ==
    LET tmpa == v[a]
        tmpb == v[b]
    IN [v EXCEPT ![res] = [i \in Lanes(c) |->
           IF MaskBit(k1, i) = 1
           THEN (IF i < VLEN(c) - count THEN tmpb[i + count]
                 ELSE tmpa[i + count - VLEN(c)])
           ELSE v[res][i]]]

\* A permute that reads a in place, lane after lane, instead of from a copy.
RECURSIVE PermuteInPlace(_, _, _, _, _, _, _)
PermuteInPlace(c, v, res, ctrl, a, g, i) ==
    IF i >= VLEN(c) THEN v
    ELSE PermuteInPlace(c,
            [v EXCEPT ![res][i] = IF ctrl[i] \in Lanes(c) THEN v[a][ctrl[i]] ELSE g],
            res, ctrl, a, g, i + 1)

real_vec_permuteNoCopy(c, v, res, ctrl, a, g) == PermuteInPlace(c, v, res, ctrl, a, g, 0)

\* real_vec_permute(res, ctrl, a) of a build without the 512-bit
\* instruction: tmp = a, then res.u.r[i] = tmp.u.r[ctrl.u.ci[i]].  A control
\* lane outside 0..VLEN-1 reads outside tmp.u.r: g is what is read there.
real_vec_permute(c, v, res, ctrl, a, g) ==
    LET tmp == v[a]
    IN [v EXCEPT ![res] = [i \in Lanes(c) |->
           IF ctrl[i] \in Lanes(c) THEN tmp[ctrl[i]] ELSE g]]

\* A masked permute that writes every lane.
real_vec_permute_maskedAllLanes(c, v, res, ctrl, a, k1, g) ==
    real_vec_permute(c, v, res, ctrl, a, g)

\* real_vec_permute_masked(res, ctrl, a, k1) of a build without the 512-bit
\* instruction.
real_vec_permute_masked(c, v, res, ctrl, a, k1, g) ==
    LET tmp == v[a]
    IN [v EXCEPT ![res] = [i \in Lanes(c) |->
           IF MaskBit(k1, i) = 1
           THEN (IF ctrl[i] \in Lanes(c) THEN tmp[ctrl[i]] ELSE g)
           ELSE v[res][i]]]

\* The control vectors drawn: the identity or the reversal, with one lane
\* (the first or the last) set to a value at the edges of the lanes, of the
\* index mask and of the selector bit.
CtrlSamples(c) ==
    LET vals == {0, 1, VLEN(c) - 1, VLEN(c), ctrl_idx_mask(c), ctrl_sel_bit(c),
                 ctrl_sel_bit(c) + 1, 2 * ctrl_sel_bit(c) - 1, 2 * ctrl_sel_bit(c)}
    IN {[i \in Lanes(c) |-> IF i = j THEN cv ELSE IF rev THEN VLEN(c) - 1 - i ELSE i] :
           j \in {0, VLEN(c) - 1}, cv \in vals, rev \in BOOLEAN}

\* The two fields of a control lane in real_vec_permute2, for the unsigned
\* lane value cv: cv & ctrl_sel_bit and cv & ctrl_idx_mask.
Permute2Sel(c, cv) == ((cv \div ctrl_sel_bit(c)) % 2) * ctrl_sel_bit(c)
Permute2Idx(c, cv) == cv % (ctrl_idx_mask(c) + 1)

\* A permute2 that takes a where the selector is set and b where it is not.
real_vec_permute2Swapped(c, v, res, ctrl, a, b, g) ==
    LET tmpa == v[a]
        tmpb == v[b]
    IN [v EXCEPT ![res] = [i \in Lanes(c) |->
           LET sel == Permute2Sel(c, ctrl[i])
               idx == Permute2Idx(c, ctrl[i])
           IN IF idx \notin Lanes(c) THEN g
              ELSE IF sel # 0 THEN tmpa[idx] ELSE tmpb[idx]]]

\* real_vec_permute2(res, ctrl, a, b) of a build without the 512-bit
\* instruction: tmpa = a, tmpb = b, then res.u.r[i] is tmpb.u.r[idx] or
\* tmpa.u.r[idx].  An idx outside 0..VLEN-1 reads outside the array: g is
\* what is read there.
real_vec_permute2(c, v, res, ctrl, a, b, g) ==
    LET tmpa == v[a]
        tmpb == v[b]
    IN [v EXCEPT ![res] = [i \in Lanes(c) |->
           LET sel == Permute2Sel(c, ctrl[i])
               idx == Permute2Idx(c, ctrl[i])
           IN IF idx \notin Lanes(c) THEN g
              ELSE IF sel # 0 THEN tmpb[idx] ELSE tmpa[idx]]]

\* Masks drawn: none, the first lane, the last lane, all lanes, and a bit
\* above the lanes.
MaskSamples(c) == {0, 1, 2 ^ (VLEN(c) - 1), 2 ^ VLEN(c) - 1, 2 ^ VLEN(c) + 1}

\* What a read outside tmp.u.r may give.
GarbageVals == {-1, 0}

\* storeTo(to), to pointing at element p of the scalars mem: the loop
\* (*to)[i] = u.r[i], or the store instruction of the build, which moves
\* the same VLEN scalars.  The result is the memory after the call.
storeToOneShort(c, vec, mem, p) ==
    [k \in DOMAIN mem |-> IF k - p \in 0..(VLEN(c) - 2) THEN vec[k - p] ELSE mem[k]]

storeTo(c, vec, mem, p) ==
    [k \in DOMAIN mem |-> IF k - p \in Lanes(c) THEN vec[k - p] ELSE mem[k]]

\* loadFrom(from) and loadUnalignedFrom(from): u.r[i] = (*from)[i], or the
\* load instruction of the build.  The result is the vector after the call.
loadFrom(c, mem, p) == [i \in Lanes(c) |-> mem[p + i]]

loadUnalignedFrom(c, mem, p) == [i \in Lanes(c) |-> mem[p + i]]

\* The macros of layout_macros.hpp, which realv.hpp includes: the flat
\* index of (j1, j2, j3, j4) in a box of extents d1..d4, with the first
\* index of unit stride (4321) or the last (1234).
LAYOUT_4321(j1, j2, j3, j4, d1, d2, d3, d4) == j1 + d1 * (j2 + d2 * (j3 + d3 * j4))
LAYOUT_1234(j1, j2, j3, j4, d1, d2, d3, d4) == j4 + d4 * (j3 + d3 * (j2 + d2 * j1))

\* operator[](l): the slot u.r[l].
LaneAccess(l) == l

\* A fold access that takes the layout of the other build flag.
FoldAccessOtherFlag(c, n, i, j, k) ==
    IF c.fdus
    THEN LAYOUT_1234(n, i, j, k, c.fold[1], c.fold[2], c.fold[3], c.fold[4])
    ELSE LAYOUT_4321(n, i, j, k, c.fold[1], c.fold[2], c.fold[3], c.fold[4])

\* operator()(n, i, j, k): the slot u.r[l], l by the layout that
\* VLEN_FIRST_DIM_IS_UNIT_STRIDE selects.
FoldAccess(c, n, i, j, k) ==
    IF c.fdus
    THEN LAYOUT_4321(n, i, j, k, c.fold[1], c.fold[2], c.fold[3], c.fold[4])
    ELSE LAYOUT_1234(n, i, j, k, c.fold[1], c.fold[2], c.fold[3], c.fold[4])

\* Floating-point values: [k |-> "fin", x |-> n] is the number n / One,
\* [k |-> "inf", x |-> 1] and [k |-> "inf", x |-> -1] are the infinities
\* and [k |-> "nan", x |-> 0] is a NaN.  One is the value 1.0 of
\* 'fabs(ref) > 1.0'.  The numbers drawn are small multiples of 1/4 whose
\* differences and products the scalar type holds without rounding.
One == 4

\* within_tolerance(val, ref, epsilon) on scalars:
\*   adiff = fabs(val - ref);
\*   if (fabs(ref) > 1.0) epsilon = fabs(ref * epsilon);
\*   return adiff < epsilon;
\* in the arithmetic of IEEE 754: an operation on a NaN, inf - inf and
\* 0 * inf give a NaN, and a comparison with a NaN is false.
within_tolerance(val, ref, epsilon) ==
    LET NaN == [k |-> "nan", x |-> 0]
        Sign(n) == IF n < 0 THEN 0 - 1 ELSE 1
        Neg(a) == IF a.k = "nan" THEN a ELSE [a EXCEPT !.x = 0 - @]
        Sub(a, b) ==
            IF a.k = "nan" \/ b.k = "nan" THEN NaN
            ELSE IF a.k = "inf" THEN (IF b.k = "inf" /\ b.x = a.x THEN NaN ELSE a)
            ELSE IF b.k = "inf" THEN Neg(b)
            ELSE [k |-> "fin", x |-> a.x - b.x]
        Mul(a, b) ==
            IF a.k = "nan" \/ b.k = "nan" THEN NaN
            ELSE IF a.k = "inf" \/ b.k = "inf"
                 THEN (IF a.x = 0 \/ b.x = 0 THEN NaN
                       ELSE [k |-> "inf", x |-> Sign(a.x) * Sign(b.x)])
            ELSE [k |-> "fin", x |-> (a.x * b.x) \div One]
        fabs(a) == IF a.x < 0 THEN Neg(a) ELSE a
        Less(a, b) ==
            IF a.k = "nan" \/ b.k = "nan" THEN FALSE
            ELSE IF a.k = "inf" THEN a.x < 0 /\ ~(b.k = "inf" /\ b.x < 0)
            ELSE IF b.k = "inf" THEN b.x > 0
            ELSE a.x < b.x
        adiff == fabs(Sub(val, ref))
        eps == IF Less([k |-> "fin", x |-> One], fabs(ref))
               THEN fabs(Mul(ref, epsilon)) ELSE epsilon
    IN Less(adiff, eps)

\* A vector comparison that one passing lane satisfies.
within_toleranceVecAnyLane(c, val, ref, epsilon) ==
    \E j \in Lanes(c) : within_tolerance(val[j], ref[j], epsilon[j])

\* within_tolerance(val, ref, epsilon) on vectors: false at the first lane
\* whose scalar comparison fails, true after the last lane.
within_toleranceVec(c, val, ref, epsilon) ==
    \A j \in Lanes(c) : within_tolerance(val[j], ref[j], epsilon[j])

(***************************************************************************)
(* SpecVec: a build c and three vectors a, b and r; the caller runs one    *)
(* vector operation, whose destination may be any of the three.  hist      *)
(* keeps the vectors as they were before the call.  mem is the storage of   *)
(* two vectors, which storeTo and the loads work on; a load may follow a    *)
(* store.                                                                   *)
(***************************************************************************)
VecIds == {"a", "b", "r"}

\* The lane values drawn: lane i is base + i * step.
Ramp(c, base, step) == [i \in Lanes(c) |-> base + i * step]

InitVec ==
    \E c \in VecConfigs, sa \in {0, 1}, bb \in {0, 100} :
        /\ tup = [cfg |-> c,
                  v |-> [a |-> Ramp(c, 0, sa), b |-> Ramp(c, bb, 1), r |-> Ramp(c, 200, 1)],
                  mem |-> [k \in 0..(2 * VLEN(c) - 1) |-> 300 + k]]
        /\ allNames = <<>>
        /\ arg = [op |-> "none"]
        /\ out = NoResult
        /\ pc = "start"
        /\ thr = NoThreads
        /\ stack = <<>>
        /\ visited = <<>>
        /\ hist = NoHistory

\* real_vec_align<count>(res, a, b), res any of the three vectors.
AlignCall ==
    /\ pc = "start"
    /\ ~Intrinsic512Path(tup.cfg)
    /\ \E res \in VecIds, count \in 0..VLEN(tup.cfg),
          base \in Lanes(tup.cfg), alignedMoves \in BOOLEAN :
        LET r == real_vec_align(tup.cfg, tup.v, res, "a", "b", count, base, alignedMoves)
        IN /\ arg' = [op |-> "align", res |-> res, count |-> count]
           /\ out' = [ok |-> r.ok]
           /\ tup' = IF r.ok THEN [tup EXCEPT !.v = r.v] ELSE tup
    /\ hist' = tup.v
    /\ pc' = "done"
    /\ UNCHANGED <<allNames, thr, stack, visited>>

\* real_vec_align_masked<count>(res, a, b, k1).
AlignMaskedCall ==
    /\ pc = "start"
    /\ ~Intrinsic512Path(tup.cfg)
    /\ \E res \in VecIds, count \in 0..VLEN(tup.cfg), k1 \in MaskSamples(tup.cfg) :
        /\ arg' = [op |-> "alignMasked", res |-> res, count |-> count, k1 |-> k1]
        /\ tup' = [tup EXCEPT !.v = real_vec_align_masked(tup.cfg, @, res, "a", "b", count, k1)]
    /\ out' = [ok |-> TRUE]
    /\ hist' = tup.v
    /\ pc' = "done"
    /\ UNCHANGED <<allNames, thr, stack, visited>>

\* real_vec_permute(res, ctrl, a), res being a itself or another vector.
PermuteCall ==
    /\ pc = "start"
    /\ ~Intrinsic512Path(tup.cfg)
    /\ \E res \in {"a", "r"}, ctrl \in CtrlSamples(tup.cfg), g \in GarbageVals :
        /\ arg' = [op |-> "permute", res |-> res, ctrl |-> ctrl]
        /\ tup' = [tup EXCEPT !.v = real_vec_permute(tup.cfg, @, res, ctrl, "a", g)]
    /\ out' = [ok |-> TRUE]
    /\ hist' = tup.v
    /\ pc' = "done"
    /\ UNCHANGED <<allNames, thr, stack, visited>>

\* real_vec_permute_masked(res, ctrl, a, k1).
PermuteMaskedCall ==
    /\ pc = "start"
    /\ ~Intrinsic512Path(tup.cfg)
    /\ \E res \in {"a", "r"}, ctrl \in CtrlSamples(tup.cfg),
          k1 \in MaskSamples(tup.cfg), g \in GarbageVals :
        /\ arg' = [op |-> "permuteMasked", res |-> res, ctrl |-> ctrl, k1 |-> k1]
        /\ tup' = [tup EXCEPT !.v =
                      real_vec_permute_masked(tup.cfg, @, res, ctrl, "a", k1, g)]
    /\ out' = [ok |-> TRUE]
    /\ hist' = tup.v
    /\ pc' = "done"
    /\ UNCHANGED <<allNames, thr, stack, visited>>

Permute2Call ==
    /\ pc = "start"
    /\ ~Intrinsic512Path(tup.cfg)
    /\ \E res \in VecIds, ctrl \in CtrlSamples(tup.cfg), g \in GarbageVals :
        /\ arg' = [op |-> "permute2", res |-> res, ctrl |-> ctrl]
        /\ tup' = [tup EXCEPT !.v =
                      real_vec_permute2(tup.cfg, @, res, ctrl, "a", "b", g)]
    /\ out' = [ok |-> TRUE]
    /\ hist' = tup.v
    /\ pc' = "done"
    /\ UNCHANGED <<allNames, thr, stack, visited>>

\* v.storeTo(to): the aligned store of vector src at element p.
StoreCall ==
    /\ pc = "start"
    /\ \E src \in VecIds, p \in {0, VLEN(tup.cfg)} :
        /\ arg' = [op |-> "store", src |-> src, p |-> p, stored |-> tup.v[src]]
        /\ tup' = [tup EXCEPT !.mem = storeTo(tup.cfg, tup.v[src], @, p)]
    /\ out' = [ok |-> TRUE]
    /\ hist' = [a |-> tup.v.a, b |-> tup.v.b, r |-> tup.v.r, mem |-> tup.mem]
    /\ pc' = "stored"
    /\ UNCHANGED <<allNames, thr, stack, visited>>

\* res.loadFrom(from) at an aligned element p, or res.loadUnalignedFrom(from)
\* at any element p, first or after a store.
LoadCall ==
    /\ pc \in {"start", "stored"}
    /\ \E res \in VecIds, unaligned \in BOOLEAN :
        \E p \in IF unaligned THEN 0..VLEN(tup.cfg) ELSE {0, VLEN(tup.cfg)} :
            /\ arg' = [op |-> "load", res |-> res, p |-> p, unaligned |-> unaligned,
                       afterStore |-> pc = "stored",
                       sp |-> IF pc = "stored" THEN arg.p ELSE 0 - 1,
                       sv |-> IF pc = "stored" THEN arg.stored ELSE <<>>]
            /\ tup' = [tup EXCEPT !.v[res] =
                          IF unaligned THEN loadUnalignedFrom(tup.cfg, tup.mem, p)
                                       ELSE loadFrom(tup.cfg, tup.mem, p)]
    /\ out' = [ok |-> TRUE]
    /\ hist' = [a |-> tup.v.a, b |-> tup.v.b, r |-> tup.v.r, mem |-> tup.mem]
    /\ pc' = "done"
    /\ UNCHANGED <<allNames, thr, stack, visited>>

\* a(n, i, j, k) with every index inside its fold extent: the value read.
FoldCall ==
    /\ pc = "start"
    /\ \E n \in 0..(tup.cfg.fold[1] - 1), i \in 0..(tup.cfg.fold[2] - 1),
          j \in 0..(tup.cfg.fold[3] - 1), k \in 0..(tup.cfg.fold[4] - 1) :
        /\ arg' = [op |-> "fold", n |-> n, i |-> i, j |-> j, k |-> k]
        /\ out' = [ok |-> TRUE, slot |-> FoldAccess(tup.cfg, n, i, j, k),
                   val |-> tup.v.a[FoldAccess(tup.cfg, n, i, j, k)]]
    /\ hist' = tup.v
    /\ pc' = "done"
    /\ UNCHANGED <<allNames, tup, thr, stack, visited>>

\* within_tolerance(val, ref, epsilon) on three vectors of floating-point
\* lanes: every lane the same triple, or every lane a passing triple and
\* the last lane a triple of its own.
ToleranceCall ==
    /\ pc = "start"
    /\ LET Fin(n) == [k |-> "fin", x |-> n]
           Inf == [k |-> "inf", x |-> 1]
           NaN == [k |-> "nan", x |-> 0]
           last == VLEN(tup.cfg) - 1
       IN \E v \in {Fin(n) : n \in {0 - 8, 0, 3, 4, 5, 8, 9}} \cup {Inf, NaN},
             r \in {Fin(n) : n \in {0 - 8, 0, 4, 8}} \cup {Inf, [Inf EXCEPT !.x = 0 - 1], NaN},
             e \in {Fin(n) : n \in {0 - 2, 0, 2, 4}} \cup {Inf, NaN},
             same \in BOOLEAN :
            LET val == [i \in Lanes(tup.cfg) |-> IF same \/ i = last THEN v ELSE Fin(8)]
                ref == [i \in Lanes(tup.cfg) |-> IF same \/ i = last THEN r ELSE Fin(8)]
                eps == [i \in Lanes(tup.cfg) |-> IF same \/ i = last THEN e ELSE Fin(2)]
            IN /\ arg' = [op |-> "tolerance", val |-> val, ref |-> ref, eps |-> eps]
               /\ out' = [ok |-> within_toleranceVec(tup.cfg, val, ref, eps)]
    /\ hist' = tup.v
    /\ pc' = "done"
    /\ UNCHANGED <<allNames, tup, thr, stack, visited>>

NextVec ==
    \/ AlignCall
    \/ AlignMaskedCall
    \/ PermuteCall
    \/ PermuteMaskedCall
    \/ Permute2Call
    \/ StoreCall
    \/ LoadCall
    \/ FoldCall
    \/ ToleranceCall

SpecVec == InitVec /\ [][NextVec]_vars

\* What align is to put into lane i: b and a concatenated, from lane count.
AlignLane(c, a, b, count, i) ==
    IF i + count < VLEN(c) THEN b[i + count] ELSE a[i + count - VLEN(c)]

\* C21 (as claimed): for every count in 0..VLEN, align<count>(res, a, b)
\* sets res[i] = b[i + count] for i + count < VLEN and a[i + count - VLEN]
\* otherwise, on the emulated path and on the 256-bit path alike.
C21_Align ==
    (pc = "done" /\ arg.op = "align") =>
        /\ out.ok
        /\ \A i \in Lanes(tup.cfg) :
              tup.v[arg.res][i] = AlignLane(tup.cfg, hist.a, hist.b, arg.count, i)
        /\ arg.count = 0 => tup.v[arg.res] = hist.b
        /\ arg.count = VLEN(tup.cfg) => tup.v[arg.res] = hist.a

\* C22: after a masked align or a masked permute every lane of res whose
\* mask bit is 0 holds what it held before, and every lane whose bit is 1
\* holds what the unmasked operation writes: the lane of b and a
\* concatenated, or a[ctrl[i]] (for a control lane in 0..VLEN-1).
C22_MaskedKeepsLanes ==
    /\ (pc = "done" /\ arg.op = "alignMasked") =>
          \A i \in Lanes(tup.cfg) :
              tup.v[arg.res][i] =
                  IF MaskBit(arg.k1, i) = 0 THEN hist[arg.res][i]
                  ELSE AlignLane(tup.cfg, hist.a, hist.b, arg.count, i)
    /\ (pc = "done" /\ arg.op = "permuteMasked") =>
          \A i \in Lanes(tup.cfg) :
              /\ MaskBit(arg.k1, i) = 0 => tup.v[arg.res][i] = hist[arg.res][i]
              /\ (MaskBit(arg.k1, i) = 1 /\ arg.ctrl[i] \in Lanes(tup.cfg)) =>
                    tup.v[arg.res][i] = hist.a[arg.ctrl[i]]
    /\ (pc = "done" /\ arg.op \in {"alignMasked", "permuteMasked"}) =>
          \A o \in VecIds \ {arg.res} : tup.v[o] = hist[o]

C22_Witness ==
    /\ pc = "done" /\ arg.op = "permuteMasked" /\ arg.res = "a"
    /\ VLEN(tup.cfg) = 8
    /\ arg.k1 = 1
    /\ arg.ctrl[0] = 7
    /\ tup.v.a[0] = hist.a[7]
    /\ tup.v.a[0] # hist.a[0]
    /\ tup.v.a[7] = hist.a[7]

\* C23: for a control vector with every lane in 0..VLEN-1, permute(res,
\* ctrl, a) sets res[i] = a[ctrl[i]] for every lane, with the values a had
\* before the call also when res is a itself; with ctrl[i] = i the result
\* is a; no other vector changes.
C23_Permute ==
    (pc = "done" /\ arg.op = "permute"
        /\ \A i \in Lanes(tup.cfg) : arg.ctrl[i] \in Lanes(tup.cfg)) =>
        /\ \A i \in Lanes(tup.cfg) : tup.v[arg.res][i] = hist.a[arg.ctrl[i]]
        /\ (\A i \in Lanes(tup.cfg) : arg.ctrl[i] = i) => tup.v[arg.res] = hist.a
        /\ \A o \in VecIds \ {arg.res} : tup.v[o] = hist[o]

C23_Witness ==
    /\ pc = "done" /\ arg.op = "permute" /\ arg.res = "a"
    /\ VLEN(tup.cfg) = 4
    /\ arg.ctrl = [i \in 0..3 |-> IF i = 3 THEN 1 ELSE 3 - i]
    /\ hist.a = [i \in 0..3 |-> i]
    /\ tup.v.a = [i \in 0..3 |-> IF i = 3 THEN 1 ELSE 3 - i]

\* C24: permute2(res, ctrl, a, b), for a control lane made of an index and
\* a selector bit (bit 4 over 4 index bits for the 4-byte scalar, bit 3 over
\* 3 index bits for the 8-byte scalar) whose index is a lane: res[i] is
\* b[idx] when the selector bit is set and a[idx] otherwise, a and b being
\* read as before the call also when res is one of them.
C24_Permute2 ==
    (pc = "done" /\ arg.op = "permute2") =>
        LET c == tup.cfg
            selBit == IF c.rb = 4 THEN 2 ^ 4 ELSE 2 ^ 3
        IN /\ \A i \in Lanes(c) :
                LET cv == arg.ctrl[i]
                    set == cv >= selBit
                    idx == IF set THEN cv - selBit ELSE cv
                IN (cv < 2 * selBit /\ idx \in Lanes(c)) =>
                       tup.v[arg.res][i] = IF set THEN hist.b[idx] ELSE hist.a[idx]
           /\ \A o \in VecIds \ {arg.res} : tup.v[o] = hist[o]

C24_Witness ==
    /\ pc = "done" /\ arg.op = "permute2" /\ arg.res = "b"
    /\ tup.cfg.rb = 8 /\ VLEN(tup.cfg) = 4
    /\ arg.ctrl = [i \in 0..3 |-> IF i = 0 THEN 9 ELSE 3 - i]
    /\ hist.a = [i \in 0..3 |-> i]
    /\ hist.b = [i \in 0..3 |-> 100 + i]
    /\ tup.v.b = [i \in 0..3 |-> IF i = 0 THEN 101 ELSE 3 - i]

\* C28: the emulated permute2 never reads outside a or b: for every build
\* and every control lane, the index left by ctrl_idx_mask is in 0..VLEN-1.
C28_Permute2IndexInRange ==
    (pc = "done" /\ arg.op = "permute2") =>
        \A i \in Lanes(tup.cfg) : Permute2Idx(tup.cfg, arg.ctrl[i]) \in Lanes(tup.cfg)

\* C25: storeTo writes lane i of the vector to element p + i of the memory
\* and changes no other element and no vector; loadFrom and
\* loadUnalignedFrom set lane i to element p + i and change nothing else;
\* a load from the place of the store before it gives the stored vector.
C25_LoadStore ==
    /\ (pc = "stored" /\ arg.op = "store") =>
          /\ \A i \in Lanes(tup.cfg) : tup.mem[arg.p + i] = hist[arg.src][i]
          /\ \A k \in DOMAIN tup.mem :
                (k < arg.p \/ k >= arg.p + VLEN(tup.cfg)) => tup.mem[k] = hist.mem[k]
          /\ \A o \in VecIds : tup.v[o] = hist[o]
    /\ (pc = "done" /\ arg.op = "load") =>
          /\ \A i \in Lanes(tup.cfg) : tup.v[arg.res][i] = hist.mem[arg.p + i]
          /\ tup.mem = hist.mem
          /\ \A o \in VecIds \ {arg.res} : tup.v[o] = hist[o]
          /\ (arg.afterStore /\ arg.sp = arg.p) => tup.v[arg.res] = arg.sv

C25_Witness ==
    /\ pc = "done" /\ arg.op = "load" /\ arg.afterStore
    /\ VLEN(tup.cfg) = 8 /\ arg.p = 8 /\ arg.sp = 8 /\ arg.res = "a"
    /\ arg.sv = [i \in 0..7 |-> 100 + i]
    /\ tup.v.a = arg.sv /\ tup.v.b = arg.sv
    /\ tup.mem = [k \in 0..15 |-> IF k < 8 THEN 300 + k ELSE 92 + k]

\* The fold-index box of a build.
FoldBox(c) ==
    (0..(c.fold[1] - 1)) \X (0..(c.fold[2] - 1)) \X (0..(c.fold[3] - 1)) \X (0..(c.fold[4] - 1))

\* C26: operator()(n, i, j, k) gives the slot of lane
\* n + VLEN_N*(i + VLEN_X*(j + VLEN_Y*k)) when the fold's first dimension is
\* of unit stride and of lane k + VLEN_Z*(j + VLEN_Y*(i + VLEN_X*n))
\* otherwise, the slot operator[] gives at that lane; the lane is in
\* 0..VLEN-1, no other fold index has it, and every lane has a fold index.
C26_FoldAccess ==
    (pc = "done" /\ arg.op = "fold") =>
        LET c == tup.cfg
            N == c.fold[1]
            X == c.fold[2]
            Y == c.fold[3]
            Z == c.fold[4]
            lane == IF c.fdus
                    THEN arg.n + N * (arg.i + X * (arg.j + Y * arg.k))
                    ELSE arg.k + Z * (arg.j + Y * (arg.i + X * arg.n))
        IN /\ out.slot = LaneAccess(lane)
           /\ out.val = tup.v.a[lane]
           /\ lane \in Lanes(c)
           /\ \A q \in FoldBox(c) :
                 q # <<arg.n, arg.i, arg.j, arg.k>> =>
                     FoldAccess(c, q[1], q[2], q[3], q[4]) # out.slot
           /\ \A l \in Lanes(c) :
                 \E q \in FoldBox(c) : FoldAccess(c, q[1], q[2], q[3], q[4]) = l

C26_Witness ==
    /\ pc = "done" /\ arg.op = "fold"
    /\ tup.cfg.fold = <<1, 2, 2, 2>> /\ tup.cfg.fdus
    /\ <<arg.n, arg.i, arg.j, arg.k>> = <<0, 1, 0, 0>>
    /\ out.slot = 1
    /\ out.val = tup.v.a[1]

\* The absolute value of an integer.
AbsInt(n) == IF n < 0 THEN 0 - n ELSE n

\* epsilon > 0, for a number or an infinity.
PositiveEps(e) == e.k # "nan" /\ e.x > 0

\* The lane test as claimed, on numbers: |v - r| < e when |r| <= 1 and
\* |v - r| < e * |r| when |r| > 1.
TolLaneAsClaimed(v, r, e) ==
    IF AbsInt(r.x) <= One THEN AbsInt(v.x - r.x) < e.x
    ELSE AbsInt(v.x - r.x) * One < e.x * AbsInt(r.x)

\* The lane test of the code: a lane with an infinite or NaN value or
\* reference, or a NaN epsilon, fails; an infinite epsilon passes when it is
\* positive or |r| > 1; on numbers the bound is e when |r| <= 1 and
\* |e * r| when |r| > 1.
TolLaneOfCode(v, r, e) ==
    IF v.k # "fin" \/ r.k # "fin" \/ e.k = "nan" THEN FALSE
    ELSE IF e.k = "inf" THEN e.x > 0 \/ AbsInt(r.x) > One
    ELSE IF AbsInt(r.x) <= One THEN AbsInt(v.x - r.x) < e.x
    ELSE AbsInt(v.x - r.x) * One < AbsInt(e.x * r.x)

\* C27 as stated: the vector comparison is the AND over the lanes of
\* |value - reference| < effectiveEpsilon, effectiveEpsilon being epsilon
\* when |reference| <= 1 and epsilon * |reference| otherwise, and
\* within_tolerance(x, x, eps) is true for every x and every eps > 0.
C27_ToleranceAsClaimed ==
    (pc = "done" /\ arg.op = "tolerance") =>
        /\ (\A j \in Lanes(tup.cfg) :
                arg.val[j].k = "fin" /\ arg.ref[j].k = "fin" /\ arg.eps[j].k = "fin") =>
               (out.ok <=> \A j \in Lanes(tup.cfg) :
                               TolLaneAsClaimed(arg.val[j], arg.ref[j], arg.eps[j]))
        /\ (\A j \in Lanes(tup.cfg) : arg.val[j] = arg.ref[j] /\ PositiveEps(arg.eps[j])) =>
               out.ok

\* C27, amended: the vector comparison is the AND over the lanes of the
\* test |value - reference| < effectiveEpsilon in floating-point
\* arithmetic, effectiveEpsilon being epsilon when |reference| <= 1 and
\* |epsilon * reference| otherwise; a lane with an infinite or NaN value or
\* reference fails; within_tolerance(x, x, eps) is true for every finite x
\* and every eps > 0; one failing lane makes the result false.
C27_Tolerance ==
    (pc = "done" /\ arg.op = "tolerance") =>
        /\ out.ok <=> \A j \in Lanes(tup.cfg) :
                          TolLaneOfCode(arg.val[j], arg.ref[j], arg.eps[j])
        /\ (\A j \in Lanes(tup.cfg) :
                /\ arg.val[j] = arg.ref[j] /\ arg.val[j].k = "fin"
                /\ PositiveEps(arg.eps[j])) => out.ok
        /\ (\E j \in Lanes(tup.cfg) :
                ~TolLaneOfCode(arg.val[j], arg.ref[j], arg.eps[j])) => ~out.ok

\* Eight lanes, seven of them passing in the relative regime, and the last
\* comparing an infinity with itself: the result is false.
C27_Witness ==
    /\ pc = "done" /\ arg.op = "tolerance" /\ VLEN(tup.cfg) = 8
    /\ \A j \in 0..6 : /\ arg.val[j] = [k |-> "fin", x |-> 8]
                       /\ arg.ref[j] = [k |-> "fin", x |-> 8]
                       /\ arg.eps[j] = [k |-> "fin", x |-> 2]
    /\ arg.val[7] = [k |-> "inf", x |-> 1]
    /\ arg.ref[7] = [k |-> "inf", x |-> 1]
    /\ arg.eps[7] = [k |-> "fin", x |-> 2]
    /\ ~out.ok

====
